---- MODULE Spec2Model ----
(***************************************************************************)
(* State-machine model of the self-learning routing and budget governance  *)
(* core of cursor-ml-starter:                                              *)
(*   src/src/hybrid/bandit.py       ContextualBandit                       *)
(*   src/src/hybrid/collector.py    FeedbackCollector                      *)
(*   src/src/hybrid/calibrator.py   BudgetCalibrator                       *)
(*   src/src/hybrid/evaluator.py    QualityEvaluator, RegressionDetector   *)
(*   src/src/hybrid/prompter.py     PromptTuner                            *)
(*   src/scripts/self_learn_daily.py SelfLearningCycle                     *)
(*                                                                         *)
(* Numbers: rewards and Beta parameters are kept in tenths (10 = 1.0),     *)
(* context features in percent (90 = 0.9), the premium multiplier in       *)
(* thousandths (1000 = 1.0) and money in budget units.                     *)
(***************************************************************************)
EXTENDS Integers, Sequences, FiniteSets, TLC

VARIABLES
    \* ---- ContextualBandit (bandit.py)
    algorithm,            \* cfg['routing']['algorithm']
    cold_start_topics,    \* cfg['routing']['cold_start_gpt5_topics']
    context_stats,        \* self.state["context_stats"]
    total_events,         \* self.state["global_stats"]["total_events"]
    bandit_file,          \* bandit_state.json
    choice,               \* value returned by the last choose()
    \* ---- FeedbackCollector (collector.py)
    event_log,            \* events.jsonl, one element per line
    read_result,          \* value returned by the last read_events()
    log_call,             \* the last collector call and its arguments
    log_clock,            \* time.time(), in days
    \* ---- BudgetCalibrator (calibrator.py)
    budget_state,         \* self.budget_state
    routing_adjustments,  \* self.routing_adjustments
    budget_file,          \* budget_state.json
    routing_file,         \* routing_adjustments.json
    now_month,            \* datetime.now(), month of the calendar
    now_day,              \* datetime.now().day
    calibration,          \* value returned by the last calibrate_routing()
    \* ---- QualityEvaluator, RegressionDetector (evaluator.py)
    eval_cfg,             \* cfg['quality_gates'] and cfg['rollbacks']
    recent_events,        \* the recent window handed to the evaluator
    historical_events,    \* the historical (comparison) window
    eval_call,            \* the last evaluator call and what it returned
    \* ---- PromptTuner (prompter.py)
    prompt_variants,      \* self.variants
    prompt_file,          \* prompt_variants.json
    \* ---- SelfLearningRouter (router.py), budget.py, concurrent workers
    cost_ledger,          \* budget.py: eur of this month's rows of costs.jsonl
    routed,               \* the last route_and_process call and its decision
    peer_budget_state,    \* budget_state of a second worker's BudgetCalibrator
    spend_calls,          \* sum of the cost_eur of all update_spending calls
    reward_call,          \* the last calculate_reward call and what it returned
    \* ---- SelfLearningCycle (self_learn_daily.py)
    pc,                   \* stage the running cycle is at
    cycle,                \* locals of run_daily_cycle
    change_log,           \* change_log.jsonl
    summaries,            \* cycle_summary_<stamp>.json files
    latest_file,          \* latest_cycle.json
    now_sec               \* datetime.now(), seconds within the day

banditVars == <<algorithm, cold_start_topics, context_stats, total_events,
                bandit_file, choice>>
logVars    == <<event_log, read_result, log_call, log_clock>>
calVars    == <<budget_state, routing_adjustments, budget_file, routing_file,
                now_month, now_day, calibration>>
evalVars   == <<eval_cfg, recent_events, historical_events, eval_call>>
promptVars == <<prompt_variants, prompt_file>>
routerVars == <<cost_ledger, routed, peer_budget_state, spend_calls, reward_call>>
cycleVars  == <<pc, cycle, change_log, summaries, latest_file, now_sec>>
vars       == <<banditVars, logVars, calVars, evalVars, promptVars, routerVars, routerVars,
                cycleVars>>

None == "none"
EmptyMap == [k \in {} |-> 0]

(***************************************************************************)
(* ContextualBandit                                                        *)
(***************************************************************************)

\* Bound: number of update() calls in a behaviour.
MaxEvents == 2

\* self.models, in list order (max() keeps the first maximal key).
Models == <<"deepseek", "gpt5">>
ModelSet == {Models[i] : i \in 1..Len(Models)}

\* Contexts handed to choose/update; complexity and source_reputation in percent.
CtxFiCritical == [lang |-> "fi", country |-> "FI", topic |-> "central_banking",
                  complexity |-> 90, source_reputation |-> 90]
CtxFiPlain    == [lang |-> "fi", country |-> "SE", topic |-> "technology",
                  complexity |-> 50, source_reputation |-> 80]
CtxEnFI       == [lang |-> "en", country |-> "FI", topic |-> "fed_policy",
                  complexity |-> 20, source_reputation |-> 50]
CtxEnTech     == [lang |-> "en", country |-> "US", topic |-> "technology",
                  complexity |-> 40, source_reputation |-> 30]
Contexts == {CtxFiCritical, CtxFiPlain, CtxEnFI, CtxEnTech}

\* Rewards handed to update, in tenths: 0.0, 0.5 and 1.0.
Rewards == {0, 5, 10}

\* The rule lists the configuration may hold.
ColdStartConfigs == { <<"Fed", "FI/*">>, <<"ECB", "Fed">> }

\* rule.lower() in topic.lower(), for the topics of Contexts.
TopicContains(rule, topic) ==
    <<rule, topic>> \in { <<"Fed", "fed_policy">> }

\* The lazily created prior of one context key.
PriorStats ==
    [m \in ModelSet |-> [alpha |-> 10, beta |-> 10, count |-> 0, total_reward |-> 0]]

\* _contextualize: the selected features, continuous ones binned.
ComplexityBin(v) == IF v > 60 THEN "high" ELSE IF v > 30 THEN "med" ELSE "low"
ReputationBin(v) == IF v > 70 THEN "trusted" ELSE IF v > 40 THEN "medium" ELSE "low"
Contextualize(ctx) ==
    <<ctx.lang, ctx.topic, ComplexityBin(ctx.complexity),
      ReputationBin(ctx.source_reputation)>>

\* MatchesColdStart with the FI/* rule asking for both language and country.
MatchesColdStartBoth(rule, lang, country, topic) ==
    IF rule = "FI/*" THEN lang = "fi" /\ country = "FI"
    ELSE IF rule \in {"ECB", "Fed", "NatSec"} THEN TopicContains(rule, topic)
    ELSE FALSE

\* _matches_cold_start
MatchesColdStart(rule, lang, country, topic) ==
    IF rule = "FI/*" THEN lang = "fi" \/ country = "FI"
    ELSE IF rule \in {"ECB", "Fed", "NatSec"} THEN TopicContains(rule, topic)
    ELSE FALSE

\* The first rule of the list that matches, 0 if none does.
FirstColdStart(ctx) ==
    LET hits == { i \in 1..Len(cold_start_topics) :
                    MatchesColdStart(cold_start_topics[i], ctx.lang, ctx.country, ctx.topic) }
    IN  IF hits = {} THEN 0 ELSE CHOOSE i \in hits : \A j \in hits : i <= j

\* 1000 * ln(n), rounded, for the trial totals a behaviour can reach.
Ln1000(n) ==
    CASE n = 1 -> 0     [] n = 2 -> 693   [] n = 3 -> 1099  [] n = 4 -> 1386
      [] n = 5 -> 1609  [] n = 6 -> 1792  [] n = 7 -> 1946  [] n = 8 -> 2079
      [] n = 9 -> 2197  [] n = 10 -> 2303 [] n = 11 -> 2398 [] OTHER -> 2485

\* Integer square root (math.sqrt on hundredths).
ISqrt(n) == CHOOSE r \in 0..300 : r * r <= n /\ (r + 1) * (r + 1) > n

TotalCount(stats) == stats["deepseek"].count + stats["gpt5"].count

\* 100 * (avg_reward + confidence) of one arm; -1 stands for float('inf').
UcbValue(stats, m) ==
    IF stats[m].count = 0 THEN -1
    ELSE (stats[m].total_reward * 10) \div stats[m].count
         + ISqrt((2 * Ln1000(TotalCount(stats)) * 10) \div stats[m].count)

\* _ucb_selection: the set of models it can return.
UcbSelection(stats) ==
    IF TotalCount(stats) = 0 THEN ModelSet
    ELSE LET d == UcbValue(stats, "deepseek")
             g == UcbValue(stats, "gpt5")
         IN  IF d = -1 THEN {"deepseek"}
             ELSE IF g = -1 THEN {"gpt5"}
             ELSE IF g > d THEN {"gpt5"} ELSE {"deepseek"}

\* _thompson_sampling: both Beta posteriors have full support on (0,1).
ThompsonSampling(stats) == ModelSet

\* _is_exploration_choice
IsExplorationChoice(stats, m) ==
    IF TotalCount(stats) < 10 THEN TRUE
    ELSE 2 * stats[m].count < TotalCount(stats)

\* context_stats after the lazy creation of the entry of key.
WithEntry(cs, key) ==
    IF key \in DOMAIN cs THEN cs
    ELSE [k \in DOMAIN cs \cup {key} |-> IF k = key THEN PriorStats ELSE cs[k]]

\* No choose() has returned yet / no bandit_state.json yet.
NoChoice == [asked |-> FALSE, context |-> CtxEnTech, model |-> None, reason |-> None,
             detail |-> << >>, explore |-> FALSE]
NoBanditFile == [exists |-> FALSE, context_stats |-> EmptyMap, total_events |-> 0]

\* choose(context)
Choose(ctx) ==
    LET hit == FirstColdStart(ctx)
        key == Contextualize(ctx)
        cs  == WithEntry(context_stats, key)
    IN  /\ IF hit # 0
           THEN /\ choice' = [asked |-> TRUE, context |-> ctx,
                              model |-> "gpt5", reason |-> "cold_start",
                              detail |-> <<cold_start_topics[hit]>>,
                              explore |-> FALSE]
                /\ context_stats' = context_stats
           ELSE /\ context_stats' = cs
                /\ \E m \in (IF algorithm = "thompson"
                             THEN ThompsonSampling(cs[key])
                             ELSE UcbSelection(cs[key])) :
                      choice' = [asked |-> TRUE, context |-> ctx,
                                 model |-> m, reason |-> algorithm,
                                 detail |-> key,
                                 explore |-> IsExplorationChoice(cs[key], m)]
        /\ UNCHANGED <<algorithm, cold_start_topics, total_events, bandit_file>>

\* UpdatedEntry with the failure increment written as (reward - 1.0).
UpdatedEntrySignSlip(e, reward) ==
    [alpha        |-> IF reward > 5 THEN e.alpha + reward ELSE e.alpha,
     beta         |-> IF reward > 5 THEN e.beta ELSE e.beta + (reward - 10),
     count        |-> e.count + 1,
     total_reward |-> e.total_reward + reward]

\* The entry of one (context key, model) after an update with reward.
UpdatedEntry(e, reward) ==
    [alpha        |-> IF reward > 5 THEN e.alpha + reward ELSE e.alpha,
     beta         |-> IF reward > 5 THEN e.beta ELSE e.beta + (10 - reward),
     count        |-> e.count + 1,
     total_reward |-> e.total_reward + reward]

\* Updated with the reward credited to both tiers of the context key.
UpdatedBothTiers(stats, ctx, m, reward) ==
    LET key == Contextualize(ctx)
        cs  == WithEntry(stats, key)
    IN  [cs EXCEPT ![key] = [n \in ModelSet |-> UpdatedEntry(cs[key][n], reward)]]

\* context_stats after update(context, model, reward)
Updated(stats, ctx, m, reward) ==
    LET key == Contextualize(ctx)
        cs  == WithEntry(stats, key)
    IN  [cs EXCEPT ![key][m] = UpdatedEntry(cs[key][m], reward)]

\* update(context, model, reward), _save_state included
Update(ctx, m, reward) ==
    LET new == Updated(context_stats, ctx, m, reward)
    IN  /\ total_events < MaxEvents
        /\ context_stats' = new
        /\ total_events' = total_events + 1
        /\ bandit_file' = [exists |-> TRUE, context_stats |-> new,
                           total_events |-> total_events + 1]
        /\ UNCHANGED <<algorithm, cold_start_topics, choice>>

\* A new process: __init__ / _load_state
BanditRestart ==
    /\ IF ~bandit_file.exists
       THEN context_stats' = EmptyMap /\ total_events' = 0
       ELSE context_stats' = bandit_file.context_stats
            /\ total_events' = bandit_file.total_events
    /\ choice' = NoChoice
    /\ UNCHANGED <<algorithm, cold_start_topics, bandit_file>>

BanditInit ==
    /\ algorithm \in {"thompson", "ucb"}
    /\ cold_start_topics \in ColdStartConfigs
    /\ context_stats = EmptyMap
    /\ total_events = 0
    /\ bandit_file = NoBanditFile
    /\ choice = NoChoice

BanditIdle ==
    /\ algorithm = "thompson"
    /\ cold_start_topics = <<"FI/*">>
    /\ context_stats = EmptyMap
    /\ total_events = 0
    /\ bandit_file = NoBanditFile
    /\ choice = NoChoice

(***************************************************************************)
(* calculate_reward                                                        *)
(*                                                                         *)
(* Metrics and the two weights are in tenths, the cost in thousandths of a *)
(* euro; the quality score is in hundredths and the reward in thousandths  *)
(* (1000 = 1.0). All products are exact on this grid.                      *)
(***************************************************************************)

\* The metric values, the costs and the (quality_weight, cost_weight) pairs
\* of the routing configuration that calculate_reward is called with
MetricValues == {0, 5, 10}
RewardMetrics ==
    [editor_accepted : MetricValues, user_engagement : MetricValues,
     schema_ok : MetricValues, ref_quality : MetricValues,
     hallu_score : MetricValues, ref_miss_rate : MetricValues]
RewardCosts == {0, 20, 50, 80}
RewardWeights == { <<7, 3>>, <<10, 3>> }

\* the weighted sum of the four quality metrics, in hundredths
QualitySum(q) ==
    4 * q.editor_accepted + 3 * q.user_engagement + 2 * q.schema_ok + q.ref_quality

\* max(0.0, quality_score - hallu_penalty - ref_miss_penalty), in hundredths
QualityScore(q) ==
    LET raw == QualitySum(q) - 10 * q.hallu_score - 10 * q.ref_miss_rate
    IN  IF raw < 0 THEN 0 ELSE raw

\* min(1.0, cost_eur / 0.05), in hundredths
NormalizedCost(cost) == IF 2 * cost > 100 THEN 100 ELSE 2 * cost

\* CalculateReward without the final clamp.
CalculateRewardNoClamp(q, cost, qw, cw) ==
    qw * QualityScore(q) - cw * NormalizedCost(cost)

\* calculate_reward(quality_metrics, cost_eur), in thousandths
CalculateReward(q, cost, qw, cw) ==
    LET reward == qw * QualityScore(q) - cw * NormalizedCost(cost)
    IN  IF reward < 0 THEN 0 ELSE IF reward > 1000 THEN 1000 ELSE reward

NoReward == [done |-> FALSE, metrics |-> CHOOSE q \in RewardMetrics : TRUE, cost |-> 0,
             quality_weight |-> 10, cost_weight |-> 0, reward |-> 0]

\* The calls of calculate_reward that can be pending
RewardInputs ==
    { [done |-> FALSE, metrics |-> q, cost |-> cost, quality_weight |-> w[1],
       cost_weight |-> w[2], reward |-> 0] :
         q \in RewardMetrics, cost \in RewardCosts, w \in RewardWeights }

\* calculate_reward returns for the pending call
RewardCall ==
    /\ ~reward_call.done
    /\ reward_call' = [reward_call EXCEPT
                          !.done = TRUE,
                          !.reward = CalculateReward(reward_call.metrics, reward_call.cost,
                                                     reward_call.quality_weight,
                                                     reward_call.cost_weight)]

(***************************************************************************)
(* FeedbackCollector                                                       *)
(***************************************************************************)

\* Bounds: lines in events.jsonl, and the days the clock runs over.
MaxLog == 3
MaxClock == 2

\* Content ids, uuid suffixes and feedback payloads of the calls.
ContentIds == {"news_1"}
Uuids == {"a1", "b2"}
FeedbackTypes == {"user", "editor"}

\* cfg['window_days'] / the days_back of a read, in days.
WindowDays == {1}

\* What a line of the file can be besides a record written by _append_event:
\* text that json.loads rejects, a JSON object without "ts", an empty line.
ForeignKinds == {"not_json", "no_ts", "blank"}

\* A line of events.jsonl.
Line(kind, ts, id, ref, payload) ==
    [kind |-> kind, ts |-> ts, id |-> id, ref |-> ref, payload |-> payload]

NoId == << >>
IsWellFormed(line) == line.kind \in {"event", "feedback_update"}

\* No collector call yet / no read_events() yet.
NoCall == [op |-> None, event_id |-> NoId, feedback_type |-> None]
NoRead == [done |-> FALSE, raised |-> FALSE, days_back |-> 0, at_clock |-> 0,
           log_len |-> 0, events |-> << >>]

\* _append_event: one line written at the end of the file, mode 'a'
AppendEvent(log, line) == Append(log, line)

\* log_event(content_id, ...): the id is nw_<timestamp>_<uuid4 prefix>
LogEvent(content, uuid) ==
    LET event_id == <<log_clock, uuid>>
    IN  /\ Len(event_log) < MaxLog
        /\ event_log' = AppendEvent(event_log,
                            Line("event", log_clock, event_id, NoId, content))
        /\ log_call' = [op |-> "log_event", event_id |-> event_id,
                        feedback_type |-> None]
        /\ UNCHANGED <<read_result, log_clock>>

\* AppendFeedback editing the original event in place when it finds it.
AppendFeedbackInPlace(event_id, feedback_type) ==
    LET hits == { i \in 1..Len(event_log) : event_log[i].id = event_id }
    IN  /\ Len(event_log) < MaxLog
        /\ event_log' = IF hits = {}
                         THEN Append(event_log, Line("feedback_update", log_clock, NoId,
                                                     event_id, feedback_type))
                         ELSE [i \in 1..Len(event_log) |->
                                 IF i \in hits
                                 THEN [event_log[i] EXCEPT !.payload = feedback_type]
                                 ELSE event_log[i]]
        /\ log_call' = [op |-> "append_feedback", event_id |-> event_id,
                        feedback_type |-> feedback_type]
        /\ UNCHANGED <<read_result, log_clock>>

\* append_feedback(event_id, feedback_type, feedback_data)
AppendFeedback(event_id, feedback_type) ==
    /\ Len(event_log) < MaxLog
    /\ event_log' = AppendEvent(event_log,
                        Line("feedback_update", log_clock, NoId, event_id, feedback_type))
    /\ log_call' = [op |-> "append_feedback", event_id |-> event_id,
                    feedback_type |-> feedback_type]
    /\ UNCHANGED <<read_result, log_clock>>

\* A line that did not come from _append_event: an interrupted or a foreign
\* write to the same file (scripts/self_learn_test.py writes it directly).
ForeignLine(kind) ==
    /\ Len(event_log) < MaxLog
    /\ event_log' = Append(event_log, Line(kind, 0, NoId, NoId, None))
    /\ log_call' = [op |-> "foreign", event_id |-> NoId, feedback_type |-> None]
    /\ UNCHANGED <<read_result, log_clock>>

\* The loop of read_events over lines i..Len(log): a blank line is skipped,
\* a line whose json.loads or event['ts'] raises leaves the loop (the try
\* encloses the loop), any other line is kept when it is recent enough.
RECURSIVE ReadLoop(_, _, _, _)
ReadLoop(log, i, cutoff, acc) ==
    IF i > Len(log) THEN acc
    ELSE IF log[i].kind = "blank" THEN ReadLoop(log, i + 1, cutoff, acc)
    ELSE IF ~IsWellFormed(log[i]) THEN acc
    ELSE IF log[i].ts >= cutoff THEN ReadLoop(log, i + 1, cutoff, Append(acc, log[i]))
    ELSE ReadLoop(log, i + 1, cutoff, acc)

\* read_events(days_back)
ReadEvents(days_back) ==
    /\ read_result' = [done |-> TRUE, raised |-> FALSE, days_back |-> days_back,
                       at_clock |-> log_clock, log_len |-> Len(event_log),
                       events |-> ReadLoop(event_log, 1, log_clock - days_back, << >>)]
    /\ log_call' = [op |-> "read_events", event_id |-> NoId, feedback_type |-> None]
    /\ UNCHANGED <<event_log, log_clock>>

\* time passes
LogTick ==
    /\ log_clock < MaxClock
    /\ log_clock' = log_clock + 1
    /\ UNCHANGED <<event_log, read_result, log_call>>

LogInit ==
    /\ event_log = << >>
    /\ read_result = NoRead
    /\ log_call = NoCall
    /\ log_clock = 0

\* The event ids a caller can hold: those returned so far and one unknown id.
KnownIds == { event_log[i].id : i \in { j \in 1..Len(event_log) : event_log[j].kind = "event" } }
              \cup { <<0, "zz">> }

LogNext ==
    \/ \E c \in ContentIds, u \in Uuids : LogEvent(c, u)
    \/ \E e \in KnownIds, t \in FeedbackTypes : AppendFeedback(e, t)
    \/ \E k \in ForeignKinds : ForeignLine(k)
    \/ \E d \in WindowDays : ReadEvents(d)
    \/ LogTick

(***************************************************************************)
(* BudgetCalibrator                                                        *)
(***************************************************************************)

\* cfg['calibration']: target_budget_eur_month in budget units, soft_cap and
\* hard_cap in percent of the target.
TargetBudget == 20
SoftCapPct == 85
HardCapPct == 125

\* Bounds: the spend recorded in one month, and the months of the calendar.
MaxSpend == 25
MaxMonth == 1

\* The days of a month on which the program runs, and the calls it records:
\* the model and the cost of the call.
Days == {5, 29, 31}
Spends == { <<"deepseek", 0>>, <<"deepseek", 8>>, <<"gpt5", 17>> }

FirstDay == CHOOSE d \in Days : \A e \in Days : d <= e
LastDay == CHOOSE d \in Days : \A e \in Days : d >= e

\* Contexts handed to should_use_gpt5.
GateContexts == {CtxFiCritical, CtxFiPlain, CtxEnTech}

NoStamp == << >>
Stamp == <<now_month, now_day>>

\* A state file: missing, holding data, or unreadable.
NoFile(default) == [status |-> "missing", data |-> default]
Written(data) == [status |-> "ok", data |-> data]

\* No calibrate_routing() has returned since the calibrator last changed
\* otherwise; calls tells two successive returns apart.
NoCalibration == [returned |-> FALSE, calls |-> 0, adjustments_made |-> << >>]

\* sum(daily_spending[d] for d in days)
RECURSIVE SumOver(_, _)
SumOver(ds, days) ==
    IF days = {} THEN 0
    ELSE LET d == CHOOSE x \in days : TRUE
         IN  ds[d] + SumOver(ds, days \ {d})

\* sorted(daily_spending.keys())[-7:]
RecentDays(ds) ==
    { d \in DOMAIN ds : Cardinality({ e \in DOMAIN ds : e > d }) < 7 }

\* The budget state of a new month (also the state when no file loads).
FreshBudget ==
    [current_month  |-> now_month,
     deepseek_spent |-> 0,
     gpt5_spent     |-> 0,
     total_spent    |-> 0,
     daily_spending |-> EmptyMap,
     last_reset     |-> Stamp,
     rate_sum       |-> 0,      \* spending_rate_eur_per_day = rate_sum / rate_n
     rate_n         |-> 1]

\* The routing adjustments when no file loads, and after a monthly reset.
DefaultAdjustments ==
    [gpt5_usage_multiplier    |-> 1000,
     validation_only_segments |-> << >>,
     frozen_mode              |-> FALSE,
     emergency_mode           |-> FALSE,
     last_adjustment          |-> NoStamp,
     adjustment_reason        |-> << >>]

\* _load_budget_state / _load_routing_adjustments
LoadBudgetState == IF budget_file.status = "ok" THEN budget_file.data ELSE FreshBudget
LoadRoutingAdjustments ==
    IF routing_file.status = "ok" THEN routing_file.data ELSE DefaultAdjustments

\* _update_spending_rate: np.mean over the last seven days that have an entry
WithSpendingRate(bs) ==
    IF DOMAIN bs.daily_spending = {}
    THEN [bs EXCEPT !.rate_sum = 0, !.rate_n = 1]
    ELSE [bs EXCEPT !.rate_sum = SumOver(bs.daily_spending, RecentDays(bs.daily_spending)),
                    !.rate_n = Cardinality(RecentDays(bs.daily_spending))]

\* The totals and the daily map after cost_eur is added for model.
WithCost(bs, model, cost) ==
    LET ds    == bs.daily_spending
        today == now_day
        ds1   == IF today \in DOMAIN ds THEN ds
                 ELSE [d \in DOMAIN ds \cup {today} |-> IF d = today THEN 0 ELSE ds[d]]
    IN  [bs EXCEPT !.deepseek_spent = IF model = "deepseek" THEN @ + cost ELSE @,
                   !.gpt5_spent     = IF model = "gpt5" THEN @ + cost ELSE @,
                   !.total_spent    = @ + cost,
                   !.daily_spending = [ds1 EXCEPT ![today] = @ + cost]]

\* update_spending(model, cost_eur), _reset_monthly_budget included
UpdateSpending(model, cost) ==
    LET reset == budget_state.current_month # now_month
        bs0   == IF reset THEN FreshBudget ELSE budget_state
        bs1   == WithSpendingRate(WithCost(bs0, model, cost))
    IN  /\ bs0.total_spent + cost <= MaxSpend
        /\ budget_state' = bs1
        /\ budget_file' = Written(bs1)
        /\ routing_adjustments' = IF reset THEN DefaultAdjustments ELSE routing_adjustments
        /\ routing_file' = IF reset THEN Written(DefaultAdjustments) ELSE routing_file
        /\ calibration' = NoCalibration
        /\ UNCHANGED <<now_month, now_day>>

\* days_in_month - day_of_month, with days_in_month = 30
RemainingDays == 30 - now_day

\* utilization >= pct/100
UtilizationAtLeast(bs, pct) == bs.total_spent * 100 >= pct * TargetBudget

\* projected_utilization > pct/100, where
\* projected_spending = total_spent + spending_rate * remaining_days
ProjectedOver(bs, pct) ==
    (bs.total_spent * bs.rate_n + bs.rate_sum * RemainingDays) * 100
        > pct * TargetBudget * bs.rate_n

\* get_budget_status: spend and projected spend (as fractions of a day's
\* entries) and the three threshold flags
GetBudgetStatus ==
    [total                 |-> budget_state.total_spent,
     projected_num         |-> budget_state.total_spent * budget_state.rate_n
                               + budget_state.rate_sum * RemainingDays,
     projected_den         |-> budget_state.rate_n,
     soft_cap_triggered    |-> UtilizationAtLeast(budget_state, SoftCapPct),
     hard_cap_triggered    |-> UtilizationAtLeast(budget_state, HardCapPct),
     projected_over_budget |-> ProjectedOver(budget_state, 100)]

\* current_multiplier * factor/10, in thousandths
\* the product without the division by ten
ScaledNoDivide(m, factor) == m * factor

Scaled(m, factor) == (m * factor) \div 10
Max(a, b) == IF a >= b THEN a ELSE b
Min(a, b) == IF a <= b THEN a ELSE b

\* HardCapBranch without the freeze.
HardCapBranchNoFreeze(ra) ==
    IF ~ra.emergency_mode
    THEN <<[ra EXCEPT !.emergency_mode = TRUE, !.gpt5_usage_multiplier = 100],
           <<"EMERGENCY">>>>
    ELSE <<ra, << >>>>

\* HardCapBranch entering the emergency with experimentation unfrozen.
HardCapBranchUnfreezes(ra) ==
    IF ~ra.emergency_mode
    THEN <<[ra EXCEPT !.emergency_mode = TRUE, !.gpt5_usage_multiplier = 100,
                      !.frozen_mode = FALSE],
           <<"EMERGENCY">>>>
    ELSE <<ra, << >>>>

\* The hard-cap branch of calibrate_routing: <<adjustments, made>>
HardCapBranch(ra) ==
    IF ~ra.emergency_mode
    THEN <<[ra EXCEPT !.emergency_mode = TRUE, !.gpt5_usage_multiplier = 100,
                      !.frozen_mode = TRUE],
           <<"EMERGENCY">>>>
    ELSE <<ra, << >>>>

\* SoftCapBranch without the floors 0.3, 0.5 and 0.7.
SoftCapBranchNoFloor(ra, bs) ==
    LET cur == ra.gpt5_usage_multiplier
        new == IF ProjectedOver(bs, 120) THEN Scaled(cur, 7)
               ELSE IF ProjectedOver(bs, 110) THEN Scaled(cur, 8)
               ELSE Scaled(cur, 9)
        tag == IF ProjectedOver(bs, 120) THEN "AGGRESSIVE"
               ELSE IF ProjectedOver(bs, 110) THEN "MODERATE" ELSE "LIGHT"
    IN  IF ProjectedOver(bs, 130)
        THEN <<[ra EXCEPT !.gpt5_usage_multiplier = new, !.frozen_mode = TRUE],
               <<tag, "FROZEN">>>>
        ELSE <<[ra EXCEPT !.gpt5_usage_multiplier = new], <<tag>>>>

\* The soft-cap / projected-over-budget branch
SoftCapBranch(ra, bs) ==
    LET cur == ra.gpt5_usage_multiplier
        new == IF ProjectedOver(bs, 120) THEN Max(300, Scaled(cur, 7))
               ELSE IF ProjectedOver(bs, 110) THEN Max(500, Scaled(cur, 8))
               ELSE Max(700, Scaled(cur, 9))
        tag == IF ProjectedOver(bs, 120) THEN "AGGRESSIVE"
               ELSE IF ProjectedOver(bs, 110) THEN "MODERATE" ELSE "LIGHT"
    IN  IF ProjectedOver(bs, 130)
        THEN <<[ra EXCEPT !.gpt5_usage_multiplier = new, !.frozen_mode = TRUE],
               <<tag, "FROZEN">>>>
        ELSE <<[ra EXCEPT !.gpt5_usage_multiplier = new], <<tag>>>>

\* UnderBudgetBranch restoring whenever the multiplier is <= 1.0.
UnderBudgetBranchAlways(ra, bs) ==
    LET step1 == IF ra.emergency_mode
                 THEN <<[ra EXCEPT !.emergency_mode = FALSE,
                                   !.gpt5_usage_multiplier = 800],
                        <<"EXIT_EMERGENCY">>>>
                 ELSE IF ra.gpt5_usage_multiplier <= 1000
                 THEN <<[ra EXCEPT !.gpt5_usage_multiplier =
                                       Min(1000, Scaled(ra.gpt5_usage_multiplier, 11))],
                        <<"RESTORED">>>>
                 ELSE <<ra, << >>>>
    IN  IF step1[1].frozen_mode /\ ~UtilizationAtLeast(bs, 80)
        THEN <<[step1[1] EXCEPT !.frozen_mode = FALSE], Append(step1[2], "UNFROZE")>>
        ELSE step1

\* UnderBudgetBranch that never unfreezes.
UnderBudgetBranchKeepsFrozen(ra, bs) ==
    IF ra.emergency_mode
    THEN <<[ra EXCEPT !.emergency_mode = FALSE, !.gpt5_usage_multiplier = 800],
           <<"EXIT_EMERGENCY">>>>
    ELSE IF ra.gpt5_usage_multiplier < 1000
    THEN <<[ra EXCEPT !.gpt5_usage_multiplier =
                          Min(1000, Scaled(ra.gpt5_usage_multiplier, 11))],
           <<"RESTORED">>>>
    ELSE <<ra, << >>>>

\* The under-budget branch
UnderBudgetBranch(ra, bs) ==
    LET step1 == IF ra.emergency_mode
                 THEN <<[ra EXCEPT !.emergency_mode = FALSE,
                                   !.gpt5_usage_multiplier = 800],
                        <<"EXIT_EMERGENCY">>>>
                 ELSE IF ra.gpt5_usage_multiplier < 1000
                 THEN <<[ra EXCEPT !.gpt5_usage_multiplier =
                                       Min(1000, Scaled(ra.gpt5_usage_multiplier, 11))],
                        <<"RESTORED">>>>
                 ELSE <<ra, << >>>>
    IN  IF step1[1].frozen_mode /\ ~UtilizationAtLeast(bs, 80)
        THEN <<[step1[1] EXCEPT !.frozen_mode = FALSE], Append(step1[2], "UNFROZE")>>
        ELSE step1

\* calibrate_routing up to its metadata update: <<adjustments, made>>
CalibrateBranches(ra, bs) ==
    IF UtilizationAtLeast(bs, HardCapPct) THEN HardCapBranch(ra)
    ELSE IF UtilizationAtLeast(bs, SoftCapPct) \/ ProjectedOver(bs, 100)
    THEN SoftCapBranch(ra, bs)
    ELSE UnderBudgetBranch(ra, bs)

\* The adjustments calibrate_routing leaves in memory
Calibrated(ra, bs) ==
    LET r == CalibrateBranches(ra, bs)
    IN  IF r[2] # << >>
        THEN [r[1] EXCEPT !.last_adjustment = Stamp, !.adjustment_reason = r[2]]
        ELSE r[1]


\* calibrate_routing(), _save_routing_adjustments included
CalibrateRouting ==
    LET made == CalibrateBranches(routing_adjustments, budget_state)[2]
        ra   == Calibrated(routing_adjustments, budget_state)
    IN  /\ routing_adjustments' = ra
        /\ routing_file' = IF made # << >> THEN Written(ra) ELSE routing_file
        /\ calibration' = [returned |-> TRUE, calls |-> 1 - calibration.calls,
                           adjustments_made |-> made]
        /\ UNCHANGED <<budget_state, budget_file, now_month, now_day>>

\* The critical allow-list of should_use_gpt5
IsCritical(ctx) == ctx.lang = "fi" /\ ctx.complexity > 80

\* should_use_gpt5(base_decision, context): the values it can return, and
\* whether it draws np.random.random(), a number in [0, 1)
Gpt5Outcomes(ra, base, ctx) ==
    IF ra.emergency_mode THEN {IsCritical(ctx)}
    ELSE IF base
    THEN { b \in BOOLEAN : \/ b /\ ra.gpt5_usage_multiplier > 0
                           \/ ~b /\ ra.gpt5_usage_multiplier < 1000 }
    ELSE {FALSE}
Gpt5Draws(ra, base) == ~ra.emergency_mode /\ base

\* A new process: BudgetCalibrator.__init__
CalRestart ==
    /\ budget_state' = LoadBudgetState
    /\ routing_adjustments' = LoadRoutingAdjustments
    /\ calibration' = NoCalibration
    /\ UNCHANGED <<budget_file, routing_file, now_month, now_day>>

\* time passes: a later day of the month, or the first run day of the next
NextDay ==
    /\ \E d \in Days : d > now_day /\ now_day' = d
    /\ UNCHANGED <<budget_state, routing_adjustments, budget_file, routing_file,
                   now_month, calibration>>

NextMonth ==
    /\ now_month < MaxMonth
    /\ now_month' = now_month + 1
    /\ now_day' = FirstDay
    /\ UNCHANGED <<budget_state, routing_adjustments, budget_file, routing_file,
                   calibration>>

CalInit ==
    /\ now_month = 0
    /\ now_day = FirstDay
    /\ budget_file = NoFile(FreshBudget)
    /\ routing_file = NoFile(DefaultAdjustments)
    /\ budget_state = FreshBudget
    /\ routing_adjustments = DefaultAdjustments
    /\ calibration = NoCalibration

\* Bound: the sum of the costs recorded while recovery is followed
MaxRecoverSpend == 33

\* update_spending in a process that is killed inside _save_state, after
\* open(budget_state_file, 'w') truncated the file; the next process loads
\* what is left: json.load fails and _load_budget_state returns a fresh state
UpdateSpendingKilledInSave ==
    /\ budget_file' = [status |-> "unreadable", data |-> FreshBudget]
    /\ budget_state' = FreshBudget
    /\ routing_adjustments' = LoadRoutingAdjustments
    /\ calibration' = NoCalibration
    /\ UNCHANGED <<routing_file, now_month, now_day>>

CalNext ==
    \/ \E s \in Spends : UpdateSpending(s[1], s[2])
    \/ CalibrateRouting
    \/ CalRestart
    \/ NextDay
    \/ NextMonth

(***************************************************************************)
(* QualityEvaluator and RegressionDetector                                 *)
(*                                                                         *)
(* A window of events is kept as its size and the sums of the four output  *)
(* fields the gates read, in hundredths (100 = one event with value 1.0):  *)
(* the mean of a field is sum / (100 * n). Thresholds are in percent.      *)
(***************************************************************************)

\* Window sizes and per-event field values (percent) of the windows tried.
WindowSizes == {0, 19, 20, 30, 50}
PassRates == {60, 90, 95}
OtherRates == { <<90, 2, 5>>, <<50, 2, 5>>, <<90, 20, 5>>, <<90, 2, 30>>, <<50, 20, 30>> }

\* n events that all carry the given output values
Window(n, pass, why, hallu, ref) ==
    [n |-> n, schema_ok |-> n * pass, why_matters_ok |-> n * why,
     hallu_score |-> n * hallu, ref_miss_rate |-> n * ref]

EmptyWindow == Window(0, 0, 0, 0, 0)

Windows ==
    { Window(n, p, o[1], o[2], o[3]) : n \in WindowSizes, p \in PassRates, o \in OtherRates }

\* cfg['quality_gates'] and cfg['rollbacks'] as the evaluator reads them
EvalConfigs ==
    [min_card_pass_rate       : {50, 90},
     min_coverage_why_matters : {80},
     max_hallu_rate           : {2},
     max_ref_miss_rate        : {10},
     regression_guardrail     : BOOLEAN,
     require_improvement      : { <<"card_pass_rate", "hallu_rate">>, <<"hallu_rate">> }]

\* _calculate_metrics: {} for no events, else the means (kept as sum and n)
CalculateMetrics(w) ==
    [empty                |-> w.n = 0,
     sample_size          |-> w.n,
     card_pass_rate       |-> w.schema_ok,
     coverage_why_matters |-> w.why_matters_ok,
     hallu_rate           |-> w.hallu_score,
     ref_miss_rate        |-> w.ref_miss_rate]

\* metrics.get(name, default) >= pct/100, <= pct/100, < and >
MetricAtLeast(m, name, default, pct) ==
    IF m.empty THEN default >= pct ELSE m[name] >= pct * m.sample_size
MetricAtMost(m, name, default, pct) ==
    IF m.empty THEN default <= pct ELSE m[name] <= pct * m.sample_size

\* _check_quality_gates: the four checks, in the order of the code
GateChecks(m, gates) ==
    << MetricAtLeast(m, "card_pass_rate", 0, gates.min_card_pass_rate),
       MetricAtLeast(m, "coverage_why_matters", 0, gates.min_coverage_why_matters),
       MetricAtMost(m, "hallu_rate", 100, gates.max_hallu_rate),
       MetricAtMost(m, "ref_miss_rate", 100, gates.max_ref_miss_rate) >>

CheckQualityGates(m, gates) ==
    \A i \in 1..4 : GateChecks(m, gates)[i]

\* One entry of quality_issues: the metric, its actual value and the threshold
Issue(m, name, pct) ==
    [metric |-> name, actual |-> <<m[name], m.sample_size>>, threshold |-> pct]

\* a report that leaves out the reference-miss gate
IdentifyQualityIssuesNoRefMiss(m, gates) ==
    (IF ~MetricAtLeast(m, "card_pass_rate", 0, gates.min_card_pass_rate)
     THEN <<Issue(m, "card_pass_rate", gates.min_card_pass_rate)>> ELSE << >>)
    \o (IF ~MetricAtLeast(m, "coverage_why_matters", 0, gates.min_coverage_why_matters)
        THEN <<Issue(m, "coverage_why_matters", gates.min_coverage_why_matters)>> ELSE << >>)
    \o (IF ~MetricAtMost(m, "hallu_rate", 100, gates.max_hallu_rate)
        THEN <<Issue(m, "hallu_rate", gates.max_hallu_rate)>> ELSE << >>)

\* _identify_quality_issues
IdentifyQualityIssues(m, gates) ==
    (IF ~MetricAtLeast(m, "card_pass_rate", 0, gates.min_card_pass_rate)
     THEN <<Issue(m, "card_pass_rate", gates.min_card_pass_rate)>> ELSE << >>)
    \o (IF ~MetricAtLeast(m, "coverage_why_matters", 0, gates.min_coverage_why_matters)
        THEN <<Issue(m, "coverage_why_matters", gates.min_coverage_why_matters)>> ELSE << >>)
    \o (IF ~MetricAtMost(m, "hallu_rate", 100, gates.max_hallu_rate)
        THEN <<Issue(m, "hallu_rate", gates.max_hallu_rate)>> ELSE << >>)
    \o (IF ~MetricAtMost(m, "ref_miss_rate", 100, gates.max_ref_miss_rate)
        THEN <<Issue(m, "ref_miss_rate", gates.max_ref_miss_rate)>> ELSE << >>)

\* The value evaluate_batch returns for no events: {"error": ...}, a result
\* without the key quality_gates_passed
NoDataResult ==
    [error |-> TRUE, has_gates |-> FALSE, total_events |-> 0,
     quality_gates_passed |-> FALSE, overall_metrics |-> CalculateMetrics(EmptyWindow),
     quality_issues |-> << >>]

\* evaluate_batch(events)
EvaluateBatchResult(w, gates) ==
    IF w.n = 0 THEN NoDataResult
    ELSE LET overall == CalculateMetrics(w)
             passed  == CheckQualityGates(overall, gates)
         IN  [error |-> FALSE, has_gates |-> TRUE, total_events |-> w.n,
              quality_gates_passed |-> passed, overall_metrics |-> overall,
              quality_issues |-> IF passed THEN << >>
                                 ELSE IdentifyQualityIssues(overall, gates)]

\* a reader for which a missing key is a failure
GetGatesPassedStrict(result, default) ==
    result.has_gates /\ result.quality_gates_passed /\ default

\* result.get('quality_gates_passed', default)
GetGatesPassed(result, default) ==
    IF result.has_gates THEN result.quality_gates_passed ELSE default

\* The sum of a metric of require_improvement in a window
MetricSum(w, metric) ==
    IF metric = "card_pass_rate" THEN w.schema_ok
    ELSE IF metric = "coverage_why_matters" THEN w.why_matters_ok
    ELSE IF metric = "hallu_rate" THEN w.hallu_score
    ELSE w.ref_miss_rate

\* a threshold of 50% in place of 20%
WorsenedByHalf(metric, cur, hist) ==
    IF metric \in {"hallu_rate", "ref_miss_rate"}
    THEN 10 * MetricSum(cur, metric) * hist.n > 15 * MetricSum(hist, metric) * cur.n
    ELSE 10 * MetricSum(cur, metric) * hist.n < 5 * MetricSum(hist, metric) * cur.n

\* a threshold that also flags a metric that did not move
WorsenedOrSame(metric, cur, hist) ==
    IF metric \in {"hallu_rate", "ref_miss_rate"}
    THEN MetricSum(cur, metric) * hist.n >= MetricSum(hist, metric) * cur.n
    ELSE MetricSum(cur, metric) * hist.n <= MetricSum(hist, metric) * cur.n

\* detect_regression, the 20% threshold of one metric: current > historical * 1.2
\* for the rates that should decrease, current < historical * 0.8 for the others
Worsened(metric, cur, hist) ==
    IF metric \in {"hallu_rate", "ref_miss_rate"}
    THEN 10 * MetricSum(cur, metric) * hist.n > 12 * MetricSum(hist, metric) * cur.n
    ELSE 10 * MetricSum(cur, metric) * hist.n < 8 * MetricSum(hist, metric) * cur.n

\* the metrics of require_improvement that worsened, in the order of the list
RECURSIVE RegressionDetails(_, _, _, _)
RegressionDetails(list, i, cur, hist) ==
    IF i > Len(list) THEN << >>
    ELSE (IF Worsened(list[i], cur, hist) THEN <<list[i]>> ELSE << >>)
         \o RegressionDetails(list, i + 1, cur, hist)

\* _binomial_significance_test(...) > 0.05 on schema_ok. p1, p2 and the pooled
\* rate are kept per mille. p_value = 2 * (1 - |z| / 3) clipped to [0, 1] is
\* over 0.05 when |z| < 2.925 = 117/40, that is 1600 (p1 - p2)^2 < 13689 se^2.
NotSignificant(cur, hist) ==
    IF cur.n = 0 \/ hist.n = 0 THEN TRUE
    ELSE LET p1     == (cur.schema_ok * 10) \div cur.n
             p2     == (hist.schema_ok * 10) \div hist.n
             pooled == ((cur.schema_ok + hist.schema_ok) * 10) \div (cur.n + hist.n)
             se2    == (pooled * (1000 - pooled) * (cur.n + hist.n)) \div (cur.n * hist.n)
         IN  IF se2 = 0 THEN TRUE
             ELSE 1600 * (p1 - p2) * (p1 - p2) < 13689 * se2

NoRegression(reason) ==
    [regression_detected |-> FALSE, reason |-> reason, details |-> << >>]

\* DetectRegressionResult with the significance test run at any window size.
DetectRegressionTestsAlways(cur, hist, cfg) ==
    IF ~cfg.regression_guardrail THEN NoRegression("disabled")
    ELSE IF cur.n = 0 \/ hist.n = 0 THEN NoRegression("insufficient_data")
    ELSE LET details == RegressionDetails(cfg.require_improvement, 1, cur, hist)
             flagged == details # << >>
         IN  IF flagged /\ NotSignificant(cur, hist)
             THEN [regression_detected |-> FALSE, reason |-> None,
                   details |-> Append(details, "not_significant")]
             ELSE [regression_detected |-> flagged, reason |-> None,
                   details |-> details]

\* detect_regression(current_events, historical_events)
DetectRegressionResult(cur, hist, cfg) ==
    IF ~cfg.regression_guardrail THEN NoRegression("disabled")
    ELSE IF cur.n = 0 \/ hist.n = 0 THEN NoRegression("insufficient_data")
    ELSE LET details == RegressionDetails(cfg.require_improvement, 1, cur, hist)
             flagged == details # << >>
             tested  == flagged /\ cur.n >= 30 /\ hist.n >= 30
         IN  IF tested /\ NotSignificant(cur, hist)
             THEN [regression_detected |-> FALSE, reason |-> None,
                   details |-> Append(details, "not_significant")]
             ELSE [regression_detected |-> flagged, reason |-> None,
                   details |-> details]

\* the metric names in a list of quality issues
RECURSIVE IssueMetrics(_, _)
IssueMetrics(issues, i) ==
    IF i > Len(issues) THEN << >>
    ELSE <<issues[i].metric>> \o IssueMetrics(issues, i + 1)

\* RegressionDetector.should_rollback(recent_events, comparison_events)
ShouldRollbackResult(recent, comparison, cfg) ==
    LET recent_eval == EvaluateBatchResult(recent, cfg)
        regression  == DetectRegressionResult(recent, comparison, cfg)
    IN  IF ~GetGatesPassed(recent_eval, TRUE)
        THEN [rollback |-> TRUE, reason |-> "quality_gates_failed",
              details |-> IssueMetrics(recent_eval.quality_issues, 1)]
        ELSE IF regression.regression_detected
        THEN [rollback |-> TRUE, reason |-> "performance_regression",
              details |-> regression.details]
        ELSE [rollback |-> FALSE, reason |-> "no_issues_detected", details |-> << >>]

\* _check_regressions once the window is split: the guard of 20 events, then
\* should_rollback
CheckRegressionsResult(recent, historical, cfg) ==
    IF recent.n < 20 \/ historical.n < 20
    THEN [rollback |-> FALSE, reason |-> "insufficient_data", details |-> << >>]
    ELSE ShouldRollbackResult(recent, historical, cfg)

\* No evaluator call yet.
NoEvalCall ==
    [op |-> None, evaluation |-> NoDataResult, regression |-> NoRegression(None),
     rollback |-> [rollback |-> FALSE, reason |-> None, details |-> << >>]]

\* evaluate_batch on the recent window
EvaluateBatch ==
    /\ eval_call' = [NoEvalCall EXCEPT !.op = "evaluate_batch",
                        !.evaluation = EvaluateBatchResult(recent_events, eval_cfg)]
    /\ UNCHANGED <<eval_cfg, recent_events, historical_events>>

\* detect_regression on the two windows
DetectRegression ==
    /\ eval_call' = [NoEvalCall EXCEPT !.op = "detect_regression",
                        !.regression = DetectRegressionResult(recent_events,
                                                              historical_events, eval_cfg)]
    /\ UNCHANGED <<eval_cfg, recent_events, historical_events>>

\* should_rollback on the two windows
ShouldRollbackCall ==
    /\ eval_call' = [NoEvalCall EXCEPT !.op = "should_rollback",
                        !.evaluation = EvaluateBatchResult(recent_events, eval_cfg),
                        !.rollback = ShouldRollbackResult(recent_events,
                                                          historical_events, eval_cfg)]
    /\ UNCHANGED <<eval_cfg, recent_events, historical_events>>

\* _check_regressions on the two windows
CheckRegressionsCall ==
    /\ eval_call' = [NoEvalCall EXCEPT !.op = "check_regressions",
                        !.rollback = CheckRegressionsResult(recent_events,
                                                            historical_events, eval_cfg)]
    /\ UNCHANGED <<eval_cfg, recent_events, historical_events>>

\* QualityEvaluator.__init__ and the windows of one run
EvalInit ==
    /\ eval_cfg \in EvalConfigs
    /\ recent_events \in Windows
    /\ historical_events \in Windows
    /\ eval_call = NoEvalCall

\* one configuration and no events, for the runs of the other components
EvalIdle ==
    /\ eval_cfg = CHOOSE c \in EvalConfigs :
                     c.min_card_pass_rate = 90 /\ c.regression_guardrail
                     /\ Len(c.require_improvement) = 2
    /\ recent_events = EmptyWindow
    /\ historical_events = EmptyWindow
    /\ eval_call = NoEvalCall

EvalNext ==
    \/ EvaluateBatch
    \/ DetectRegression
    \/ ShouldRollbackCall
    \/ CheckRegressionsCall

(***************************************************************************)
(* PromptTuner                                                             *)
(*                                                                         *)
(* Metrics are in percent, scores in thousandths (1000 = 1.0).             *)
(***************************************************************************)

\* The base variants _create_initial_variants makes for each model
PromptIds == {"deepseek_fi_base", "deepseek_en_base", "gpt5_fi_base", "gpt5_en_base"}

VariantModel(id) ==
    IF id \in {"deepseek_fi_base", "deepseek_en_base"} THEN "deepseek" ELSE "gpt5"

\* PromptVariant.__init__
NewVariant == [trials |-> 0, successes |-> 0, total_score |-> 0]

\* _create_initial_variants
InitialVariants == [id \in PromptIds |-> NewVariant]

\* PromptVariant.to_dict: the counters and avg_score, no total_score
VariantToDict(v) ==
    [trials |-> v.trials, successes |-> v.successes,
     avg_score |-> v.total_score \div (IF v.trials < 1 THEN 1 ELSE v.trials)]

\* _load_variants: total_score is read with a default of 0.0; a file that
\* json.load rejects is reported and the initial variants are created
LoadVariants ==
    IF prompt_file.exists /\ ~prompt_file.torn
    THEN [id \in PromptIds |-> [trials      |-> prompt_file.variants[id].trials,
                                successes   |-> prompt_file.variants[id].successes,
                                total_score |-> 0]]
    ELSE InitialVariants

\* record(): success and score of the averaged metrics
RecordSuccess(metrics) ==
    metrics.schema_ok > 50 /\ metrics.editor_accepted > 50 /\ metrics.hallu_score < 10

RecordScore(metrics) ==
    4 * metrics.editor_accepted + 3 * metrics.user_engagement
    + 2 * metrics.schema_ok + (100 - metrics.hallu_score)

\* record(model, variant_id, metrics): nothing for an unknown model or variant,
\* else record_result; the new variants
Recorded(variants, model, id, metrics) ==
    IF id \notin PromptIds \/ VariantModel(id) # model THEN variants
    ELSE [variants EXCEPT ![id] =
            [trials      |-> @.trials + 1,
             successes   |-> @.successes + (IF RecordSuccess(metrics) THEN 1 ELSE 0),
             total_score |-> @.total_score + RecordScore(metrics)]]

\* _save_variants
SavedVariants(variants) ==
    [exists |-> TRUE, torn |-> FALSE,
     variants |-> [id \in PromptIds |-> VariantToDict(variants[id])]]

PromptInit ==
    /\ prompt_variants = InitialVariants
    /\ prompt_file = [exists |-> FALSE, torn |-> FALSE,
                      variants |-> [id \in PromptIds |-> VariantToDict(NewVariant)]]

\* Bound: trials of one prompt variant
MaxTrials == 2

\* The variants and averaged metrics record() is called with
RecordIds == {"deepseek_en_base", "gpt5_fi_base", "gpt5_default"}
RecordMetrics ==
    { [schema_ok |-> 100, editor_accepted |-> 100, user_engagement |-> 50, hallu_score |-> 0],
      [schema_ok |-> 100, editor_accepted |-> 0, user_engagement |-> 0, hallu_score |-> 20] }

\* record(model, variant_id, metrics), _save_variants included
Record(model, id, metrics) ==
    LET known == id \in PromptIds /\ VariantModel(id) = model
        new   == Recorded(prompt_variants, model, id, metrics)
    IN  /\ known => prompt_variants[id].trials < MaxTrials
        /\ prompt_variants' = new
        /\ prompt_file' = IF known THEN SavedVariants(new) ELSE prompt_file

\* record() in a process that is killed inside _save_variants, after
\* open(state_file, 'w') truncated the file and before json.dump completed;
\* the next process then runs _load_variants on what is left
RecordKilledInSave(model, id, metrics) ==
    /\ id \in PromptIds /\ VariantModel(id) = model
    /\ prompt_variants[id].trials < MaxTrials
    /\ prompt_file' = [prompt_file EXCEPT !.exists = TRUE, !.torn = TRUE]
    /\ prompt_variants' = InitialVariants

\* A new process: PromptTuner.__init__
PromptRestart ==
    /\ prompt_variants' = LoadVariants
    /\ UNCHANGED prompt_file

PromptNext ==
    \/ \E id \in RecordIds, model \in ModelSet, metrics \in RecordMetrics :
          Record(model, id, metrics)
    \/ \E id \in RecordIds, metrics \in RecordMetrics :
          RecordKilledInSave(VariantModel(id), id, metrics)
    \/ PromptRestart

(***************************************************************************)
(* budget.py and SelfLearningRouter                                        *)
(*                                                                         *)
(* The cost ledger is costs.jsonl, written by record_usage; its month's    *)
(* sum is in the same money units as the calibrator's budget.              *)
(***************************************************************************)

\* BUDGET_MONTH_EUR, BUDGET_SOFT_RATIO, BUDGET_HARD_RATIO (percent),
\* BUDGET_WINDOW_DAYS: the defaults of budget.py
LedgerBudget == 30
LedgerSoftPct == 85
LedgerHardPct == 125
LedgerWindowDays == 30

\* Bound: the month's sum of the ledger; and the amounts record_usage adds
MaxLedger == 40
LedgerCosts == {20}

\* should_throttle(), hard_cap_hit(), should_daily_throttle(), daily_hard_cap_hit()
ShouldThrottle(spent) ==
    /\ spent * 100 >= LedgerSoftPct * LedgerBudget
    /\ spent * 100 < LedgerHardPct * LedgerBudget
HardCapHit(spent) == spent * 100 >= LedgerHardPct * LedgerBudget
ShouldDailyThrottle(spent, day) ==
    spent * LedgerWindowDays * 1000 >= LedgerBudget * LedgerSoftPct * 8 * Max(1, day)
DailyHardCapHit(spent, day) ==
    spent * LedgerWindowDays * 100 >= LedgerBudget * LedgerHardPct * Max(1, day)

\* is_critical of _apply_budget_constraints
RouterIsCritical(ctx) == ctx.lang = "fi" \/ ctx.topic = "central_banking"

\* _apply_budget_constraints(model, context)
ApplyBudgetConstraints(model, ctx, spent, day) ==
    IF model # "gpt5" THEN model
    ELSE IF DailyHardCapHit(spent, day) THEN "deepseek"
    ELSE IF ShouldDailyThrottle(spent, day) /\ ~RouterIsCritical(ctx) THEN "deepseek"
    ELSE IF HardCapHit(spent) THEN "deepseek"
    ELSE IF ShouldThrottle(spent) /\ ~RouterIsCritical(ctx) THEN "deepseek"
    ELSE model

\* The items routed, and what _estimate_cost gives for a model and a text
RouterContexts == {CtxFiCritical, CtxEnTech}
RouteSpends == { <<"deepseek", 8>>, <<"gpt5", 0>>, <<"gpt5", 17>> }
RouteUuids == {"a1"}

NoRoute == [asked |-> FALSE, context |-> CtxEnTech, bandit_model |-> None,
            model |-> None, emergency |-> FALSE, frozen |-> FALSE,
            explored |-> FALSE, cost |-> 0]

\* propose(model, context): whether random.random() < budget_share sends it to
\* _choose_exploration, for an exploration share strictly between 0 and 1
ProposeExplores == BOOLEAN

\* route_and_process(item): bandit choice, budget constraints, propose (which
\* changes no state of the tuner), log_event, update_spending
RouteAndProcess(ctx, uuid, cost) ==
    /\ Choose(ctx)
    /\ LET final == ApplyBudgetConstraints(choice'.model, ctx, cost_ledger, now_day)
       IN  /\ <<final, cost>> \in RouteSpends
           /\ LogEvent("news_1", uuid)
           /\ UpdateSpending(final, cost)
           /\ \E explored \in ProposeExplores :
                 routed' = [asked |-> TRUE, context |-> ctx,
                            bandit_model |-> choice'.model, model |-> final,
                            emergency |-> routing_adjustments.emergency_mode,
                            frozen |-> routing_adjustments.frozen_mode,
                            explored |-> explored,
                            cost |-> cost]
           /\ spend_calls' = spend_calls + cost
    /\ UNCHANGED <<cost_ledger, peer_budget_state, reward_call, evalVars, promptVars,
                   cycleVars>>

\* budget.record_usage(provider, eur=...) by the enrichment pipeline
RecordUsage(eur) ==
    /\ cost_ledger + eur <= MaxLedger
    /\ cost_ledger' = cost_ledger + eur
    /\ UNCHANGED <<banditVars, logVars, calVars, evalVars, promptVars, routed, reward_call,
                   peer_budget_state, spend_calls, cycleVars>>

\* The daily cycle's process: CostController.daily_calibration on the files
CycleCalibrates ==
    LET ra0  == LoadRoutingAdjustments
        bs0  == LoadBudgetState
        made == CalibrateBranches(ra0, bs0)[2]
    IN  /\ routing_file' = IF made # << >> THEN Written(Calibrated(ra0, bs0))
                           ELSE routing_file
        /\ UNCHANGED <<banditVars, logVars, budget_state, routing_adjustments, budget_file,
                       now_month, now_day, calibration, evalVars, promptVars, routerVars,
                       cycleVars>>

\* A new router process: SelfLearningRouter.__init__
NewRouter ==
    /\ BanditRestart
    /\ CalRestart
    /\ prompt_variants' = LoadVariants
    /\ routed' = NoRoute
    /\ UNCHANGED <<logVars, evalVars, prompt_file, cost_ledger, peer_budget_state,
                   spend_calls, reward_call, cycleVars>>

\* the day of the month moves on
RouterDayPasses ==
    /\ NextDay
    /\ UNCHANGED <<banditVars, logVars, evalVars, promptVars, routerVars, cycleVars>>

RouterIdle ==
    /\ cost_ledger = 0
    /\ routed = NoRoute
    /\ peer_budget_state = FreshBudget
    /\ spend_calls = 0

RouterInit == RouterIdle /\ reward_call = NoReward

(***************************************************************************)
(* Two router workers, each with its own BudgetCalibrator, on one          *)
(* budget_state.json                                                       *)
(***************************************************************************)

Workers == {1, 2}

\* budget_state after update_spending(model, cost) in a calibrator holding bs
SpentUpdate(bs, model, cost) ==
    WithSpendingRate(WithCost(IF bs.current_month # now_month THEN FreshBudget ELSE bs,
                              model, cost))

\* update_spending(model, cost_eur) in worker w (route_and_process, line 131)
WorkerUpdateSpending(w, model, cost) ==
    /\ spend_calls + cost <= MaxSpend
    /\ spend_calls' = spend_calls + cost
    /\ IF w = 1
       THEN /\ UpdateSpending(model, cost)
            /\ UNCHANGED peer_budget_state
       ELSE LET reset == peer_budget_state.current_month # now_month
                bs1   == SpentUpdate(peer_budget_state, model, cost)
            IN  /\ peer_budget_state' = bs1
                /\ budget_file' = Written(bs1)
                /\ routing_file' = IF reset THEN Written(DefaultAdjustments)
                                   ELSE routing_file
                /\ UNCHANGED <<budget_state, routing_adjustments, now_month, now_day,
                               calibration>>
    /\ UNCHANGED <<banditVars, logVars, evalVars, promptVars, cost_ledger, routed, reward_call, cycleVars>>

\* worker w is started: BudgetCalibrator.__init__ loads the files
WorkerStarts(w) ==
    /\ IF w = 1
       THEN CalRestart /\ UNCHANGED peer_budget_state
       ELSE /\ peer_budget_state' = LoadBudgetState
            /\ UNCHANGED calVars
    /\ UNCHANGED <<banditVars, logVars, evalVars, promptVars, cost_ledger, routed, reward_call,
                   spend_calls, cycleVars>>

(***************************************************************************)
(* SelfLearningCycle                                                       *)
(***************************************************************************)

\* Bounds: cycles run in a behaviour, and the seconds of the clock.
MaxCycles == 2
MaxSec == 1

\* cfg['min_samples_route']
MinSamplesRoute == 2

\* The complete events of a window, as BANDIT-UPDATE and PROMPT-TUNE read
\* them: context, routed model, the reward calculate_reward gives the
\* outcome, route.prompt_variant and the four metrics of _tune_prompts.
DeepseekEvent ==
    [input |-> CtxEnTech, model |-> "deepseek", reward |-> 6,
     variant |-> "deepseek_en_base",
     metrics |-> [schema_ok |-> 100, editor_accepted |-> 100,
                  user_engagement |-> 50, hallu_score |-> 0]]

\* an event whose route names no prompt variant
Gpt5Event ==
    [input |-> CtxFiCritical, model |-> "gpt5", reward |-> 0,
     variant |-> "gpt5_default",
     metrics |-> [schema_ok |-> 0, editor_accepted |-> 0,
                  user_engagement |-> 0, hallu_score |-> 20]]

WindowEvents ==
    << DeepseekEvent, Gpt5Event, DeepseekEvent, DeepseekEvent, DeepseekEvent,
       DeepseekEvent >>

\* The windows INGEST can return: the events, and what the evaluator and the
\* regression detector find in them.
Batches ==
    { [events |-> SubSeq(WindowEvents, 1, 1), gates_passed |-> TRUE,
       regression_detected |-> FALSE] }
    \cup { [events |-> WindowEvents, gates_passed |-> g, regression_detected |-> r] :
             g \in BOOLEAN, r \in BOOLEAN }

Stages == <<"evaluate", "regress", "bandit", "prompt", "calibrate",
            "rollback_check", "persist">>
StageSet == {Stages[i] : i \in 1..Len(Stages)}

NoCycle ==
    [number |-> 0, status |-> None, start |-> << >>, batch |-> CHOOSE b \in Batches : TRUE,
     ra_at_start |-> NoFile(DefaultAdjustments),
     stages_run |-> << >>, raised_at |-> None,
     gates_passed |-> TRUE, regression_detected |-> FALSE, emergency |-> FALSE,
     updates_made |-> 0, checked |-> FALSE, rollback_executed |-> FALSE,
     reasons |-> << >>]

CycleStamp == <<now_month, now_day, now_sec>>

\* The step of run_daily_cycle from stage `at` to stage `to`
Advance(c, at, to) ==
    /\ pc = at
    /\ pc' = to
    /\ cycle' = [c EXCEPT !.stages_run = Append(@, at)]

\* SelfLearningCycle.__init__ and INGEST: the components load their state
\* files, the window is read, a short window takes the minimal cycle
CycleStart(batch) ==
    /\ pc = "idle"
    /\ cycle.number < MaxCycles
    /\ budget_state' = LoadBudgetState
    /\ routing_adjustments' = LoadRoutingAdjustments
    /\ calibration' = NoCalibration
    /\ context_stats' = IF bandit_file.exists THEN bandit_file.context_stats ELSE EmptyMap
    /\ total_events' = IF bandit_file.exists THEN bandit_file.total_events ELSE 0
    /\ choice' = NoChoice
    /\ cycle' = [NoCycle EXCEPT !.number = cycle.number + 1,
                                !.status = "running", !.start = CycleStamp,
                                !.batch = batch, !.ra_at_start = routing_file,
                                !.stages_run = <<"ingest">>]
    /\ prompt_variants' = LoadVariants
    /\ pc' = IF Len(batch.events) < MinSamplesRoute THEN "minimal" ELSE "evaluate"
    /\ UNCHANGED <<algorithm, cold_start_topics, bandit_file, logVars, evalVars, routerVars, prompt_file,
                   budget_file, routing_file, now_month, now_day,
                   change_log, summaries, latest_file, now_sec>>

\* a minimal cycle that also writes to the change log
MinimalCycleLogsChange ==
    /\ pc = "minimal"
    /\ CalibrateRouting
    /\ pc' = "idle"
    /\ cycle' = [cycle EXCEPT !.status = "minimal_cycle",
                              !.stages_run = Append(@, "calibrate")]
    /\ change_log' = Append(change_log, [timestamp |-> Stamp, reasons |-> << >>,
                                          action |-> "minimal_cycle"])
    /\ UNCHANGED <<banditVars, logVars, evalVars, promptVars, routerVars, summaries, latest_file, now_sec>>

\* _minimal_cycle: budget calibration only
MinimalCycle ==
    /\ pc = "minimal"
    /\ CalibrateRouting
    /\ pc' = "idle"
    /\ cycle' = [cycle EXCEPT !.status = "minimal_cycle",
                              !.stages_run = Append(@, "calibrate")]
    /\ UNCHANGED <<banditVars, logVars, evalVars, promptVars, routerVars, change_log, summaries, latest_file, now_sec>>

\* EVALUATE: _evaluate_quality
EvaluateQuality ==
    /\ Advance([cycle EXCEPT !.gates_passed = cycle.batch.gates_passed],
               "evaluate", "regress")
    /\ UNCHANGED <<banditVars, logVars, evalVars, promptVars, routerVars, calVars, change_log, summaries,
                   latest_file, now_sec>>

\* REGRESS-CHECK: _check_regressions
CheckRegressions ==
    /\ Advance([cycle EXCEPT !.regression_detected = cycle.batch.regression_detected],
               "regress", "bandit")
    /\ UNCHANGED <<banditVars, logVars, evalVars, promptVars, routerVars, calVars, change_log, summaries,
                   latest_file, now_sec>>

\* ApplyUpdates skipping an event that repeats an earlier one of the window.
RECURSIVE ApplyUpdatesDeduplicated(_, _, _)
ApplyUpdatesDeduplicated(stats, events, i) ==
    IF i > Len(events) THEN stats
    ELSE ApplyUpdatesDeduplicated(
             IF \E j \in 1..(i - 1) : events[j] = events[i] THEN stats
             ELSE Updated(stats, events[i].input, events[i].model, events[i].reward),
             events, i + 1)

\* context_stats after update() for events i..Len(events)
RECURSIVE ApplyUpdates(_, _, _)
ApplyUpdates(stats, events, i) ==
    IF i > Len(events) THEN stats
    ELSE ApplyUpdates(Updated(stats, events[i].input, events[i].model, events[i].reward),
                      events, i + 1)

\* BANDIT-UPDATE: _update_bandit, one update and one save per event
UpdateBandit ==
    LET events == cycle.batch.events
        new    == ApplyUpdates(context_stats, events, 1)
    IN  /\ Advance([cycle EXCEPT !.updates_made = Len(events)], "bandit", "prompt")
        /\ context_stats' = new
        /\ total_events' = total_events + Len(events)
        /\ bandit_file' = [exists |-> TRUE, context_stats |-> new,
                           total_events |-> total_events + Len(events)]
        /\ UNCHANGED <<algorithm, cold_start_topics, choice, logVars, evalVars, promptVars, routerVars, calVars,
                       change_log, summaries, latest_file, now_sec>>

\* the events of a batch whose route names the variant
RECURSIVE Performances(_, _, _)
Performances(events, id, i) ==
    IF i > Len(events) THEN << >>
    ELSE (IF events[i].variant = id THEN <<events[i]>> ELSE << >>)
         \o Performances(events, id, i + 1)

RECURSIVE SumMetric(_, _, _)
SumMetric(perfs, key, i) ==
    IF i > Len(perfs) THEN 0 ELSE perfs[i].metrics[key] + SumMetric(perfs, key, i + 1)

\* the averages of the four metrics over the events of one variant
AvgMetrics(perfs) ==
    [key \in {"schema_ok", "editor_accepted", "user_engagement", "hallu_score"} |->
        SumMetric(perfs, key, 1) \div Len(perfs)]

\* the variant ids the routes of a batch name
VariantsOf(events) == { events[i].variant : i \in 1..Len(events) }

\* the variants after record() for every id of ids with five events or more
RECURSIVE TunedVariants(_, _, _)
TunedVariants(variants, events, ids) ==
    IF ids = {} THEN variants
    ELSE LET id    == CHOOSE x \in ids : TRUE
             perfs == Performances(events, id, 1)
         IN  TunedVariants(IF Len(perfs) >= 5
                           THEN Recorded(variants, perfs[1].model, id, AvgMetrics(perfs))
                           ELSE variants,
                           events, ids \ {id})

\* record() reaches _save_variants for a known variant with five events or more
SavesVariants(events) ==
    \E id \in VariantsOf(events) \cap PromptIds :
        LET perfs == Performances(events, id, 1)
        IN  Len(perfs) >= 5 /\ VariantModel(id) = perfs[1].model

\* PROMPT-TUNE: _tune_prompts
TunePrompts ==
    LET events == cycle.batch.events
        new    == TunedVariants(prompt_variants, events, VariantsOf(events))
    IN  /\ Advance(cycle, "prompt", "calibrate")
        /\ prompt_variants' = new
        /\ prompt_file' = IF SavesVariants(events) THEN SavedVariants(new) ELSE prompt_file
        /\ UNCHANGED <<banditVars, logVars, evalVars, routerVars, calVars, change_log,
                       summaries, latest_file, now_sec>>

\* Bound: the _tune_prompts calls followed when it is called on its own
MaxTunes == 4

\* An event routed to gpt5 whose route names a variant of the deepseek pool
\* (events.jsonl is read as it is; scripts/self_learn_test.py writes routes
\* whose prompt_variant does not depend on the model)
MixedEvent == [Gpt5Event EXCEPT !.variant = "deepseek_en_base"]

\* The windows _tune_prompts is called on
TuneWindows ==
    { WindowEvents,
      SubSeq(WindowEvents, 3, 6),
      <<MixedEvent>> \o SubSeq(WindowEvents, 2, 6),
      <<DeepseekEvent, DeepseekEvent, DeepseekEvent, MixedEvent, MixedEvent>> }

\* _tune_prompts(events) on a window, outside a cycle
TunePromptsOn(events) ==
    LET new == TunedVariants(prompt_variants, events, VariantsOf(events))
    IN  /\ cycle.number < MaxTunes
        /\ cycle' = [cycle EXCEPT !.number = @ + 1,
                                  !.batch = [events |-> events, gates_passed |-> TRUE,
                                             regression_detected |-> FALSE]]
        /\ prompt_variants' = new
        /\ prompt_file' = IF SavesVariants(events) THEN SavedVariants(new) ELSE prompt_file
        /\ UNCHANGED <<banditVars, logVars, evalVars, routerVars, calVars, pc, change_log,
                       summaries, latest_file, now_sec>>

\* BUDGET-CALIBRATE: _calibrate_budget
CalibrateBudget ==
    /\ CalibrateRouting
    /\ Advance([cycle EXCEPT !.emergency = routing_adjustments'.emergency_mode],
               "calibrate", "rollback_check")
    /\ UNCHANGED <<banditVars, logVars, evalVars, promptVars, routerVars, change_log, summaries, latest_file, now_sec>>

\* The decision of _check_rollback_conditions
ShouldRollback(c) == ~c.gates_passed \/ c.regression_detected

\* and the reasons it collects: the quality issues, the 'details' of the
\* regression result (a key _check_regressions does not set), the emergency
RollbackReasons(c) ==
    (IF ~c.gates_passed THEN <<"quality_issues">> ELSE << >>)
    \o (IF c.emergency THEN <<"budget_emergency">> ELSE << >>)

\* The settings _execute_rollback writes
ConservativeState(reasons) ==
    [gpt5_usage_multiplier    |-> 1000,
     validation_only_segments |-> << >>,
     frozen_mode              |-> TRUE,
     emergency_mode           |-> FALSE,
     last_adjustment          |-> Stamp,
     adjustment_reason        |-> <<"ROLLBACK">> \o reasons]

\* ROLLBACK-CHECK: _check_rollback_conditions, _execute_rollback included
CheckRollbackConditions ==
    LET do      == ShouldRollback(cycle)
        reasons == RollbackReasons(cycle)
    IN  /\ Advance([cycle EXCEPT !.checked = TRUE, !.rollback_executed = do,
                                 !.reasons = reasons],
                   "rollback_check", "persist")
        /\ routing_file' = IF do THEN Written(ConservativeState(reasons)) ELSE routing_file
        /\ change_log' = IF do THEN Append(change_log, [timestamp |-> Stamp,
                                                        reasons |-> reasons,
                                                        action |-> "conservative_routing_restored"])
                         ELSE change_log
        /\ UNCHANGED <<banditVars, logVars, evalVars, promptVars, routerVars, budget_state, routing_adjustments,
                       budget_file, now_month, now_day, calibration,
                       summaries, latest_file, now_sec>>

\* The summary _finalize_cycle builds
Summary(c) ==
    [cycle_timestamp |-> c.start, events_processed |-> Len(c.batch.events),
     status |-> "success", rollback_executed |-> c.rollback_executed,
     reasons |-> c.reasons]

\* PERSIST: _finalize_cycle writes cycle_summary_<start>.json and latest_cycle.json
FinalizeCycle ==
    LET summary == Summary(cycle)
        files   == DOMAIN summaries \cup {cycle.start}
    IN  /\ Advance([cycle EXCEPT !.status = "success"], "persist", "idle")
        /\ summaries' = [f \in files |-> IF f = cycle.start THEN summary ELSE summaries[f]]
        /\ latest_file' = Written(summary)
        /\ UNCHANGED <<banditVars, logVars, evalVars, promptVars, routerVars, calVars, change_log, now_sec>>

\* A stage raises before it has written anything: the except clause of
\* run_daily_cycle returns status error
StageRaises ==
    /\ pc \in StageSet
    /\ pc' = "idle"
    /\ cycle' = [cycle EXCEPT !.status = "error", !.raised_at = pc]
    /\ UNCHANGED <<banditVars, logVars, evalVars, promptVars, routerVars, calVars, change_log, summaries,
                   latest_file, now_sec>>

\* _execute_rollback raises at the change log, after it wrote the settings
RollbackRaises ==
    /\ pc = "rollback_check"
    /\ ShouldRollback(cycle)
    /\ routing_file' = Written(ConservativeState(RollbackReasons(cycle)))
    /\ pc' = "idle"
    /\ cycle' = [cycle EXCEPT !.status = "error", !.raised_at = pc]
    /\ UNCHANGED <<banditVars, logVars, evalVars, promptVars, routerVars, budget_state, routing_adjustments,
                   budget_file, now_month, now_day, calibration,
                   change_log, summaries, latest_file, now_sec>>

\* the clock of the summary file names
SecondPasses ==
    /\ pc = "idle"
    /\ now_sec < MaxSec
    /\ now_sec' = now_sec + 1
    /\ UNCHANGED <<banditVars, logVars, evalVars, promptVars, routerVars, calVars, pc, cycle, change_log,
                   summaries, latest_file>>

CycleInit ==
    /\ now_sec = 0
    /\ pc = "idle"
    /\ cycle = NoCycle
    /\ change_log = << >>
    /\ summaries = EmptyMap
    /\ latest_file = NoFile(Summary(NoCycle))

\* time between two cycles: to the last day of the month, to the next month
\* (DayPasses, MonthPasses)
\* The router process between two cycles: it records spend on its calibrator
RouterSpends(m, c) ==
    /\ pc = "idle"
    /\ cycle.status = None
    /\ UpdateSpending(m, c)
    /\ UNCHANGED <<banditVars, logVars, evalVars, promptVars, routerVars, cycleVars>>

\* and it is a process of its own, whose calibrator loads the state files
RouterStarts ==
    /\ pc = "idle"
    /\ cycle.status # None
    /\ CalRestart
    /\ cycle' = [NoCycle EXCEPT !.number = cycle.number]
    /\ UNCHANGED <<banditVars, logVars, evalVars, promptVars, routerVars, pc, change_log, summaries, latest_file, now_sec>>

DayPasses ==
    /\ pc = "idle"
    /\ cycle.status = None
    /\ now_day < LastDay
    /\ now_day' = LastDay
    /\ now_sec' = 0
    /\ UNCHANGED <<banditVars, logVars, evalVars, promptVars, routerVars, budget_state, routing_adjustments,
                   budget_file, routing_file, now_month, calibration,
                   pc, cycle, change_log, summaries, latest_file>>

MonthPasses ==
    /\ pc = "idle"
    /\ cycle.status = None
    /\ NextMonth
    /\ now_sec' = 0
    /\ UNCHANGED <<banditVars, logVars, evalVars, promptVars, routerVars, pc, cycle, change_log, summaries, latest_file>>

(***************************************************************************)
(* Specifications                                                          *)
(***************************************************************************)

\* The bandit alone.
InitBandit ==
    BanditInit /\ LogInit /\ CalInit /\ EvalIdle /\ PromptInit /\ RouterInit /\ CycleInit
NextBandit ==
    \/ /\ \/ \E ctx \in Contexts : Choose(ctx)
          \/ \E ctx \in Contexts, m \in ModelSet, r \in Rewards : Update(ctx, m, r)
          \/ BanditRestart
       /\ UNCHANGED <<logVars, evalVars, promptVars, routerVars, calVars, cycleVars>>
SpecBandit == InitBandit /\ [][NextBandit]_vars

\* The feedback collector alone.
InitLog ==
    BanditIdle /\ LogInit /\ CalInit /\ EvalIdle /\ PromptInit /\ RouterInit /\ CycleInit
NextLog == LogNext /\ UNCHANGED <<banditVars, calVars, evalVars, promptVars, routerVars, cycleVars>>
SpecLog == InitLog /\ [][NextLog]_vars

\* One budget calibrator and the calendar.
InitCal ==
    BanditIdle /\ LogInit /\ CalInit /\ EvalIdle /\ PromptInit /\ RouterInit /\ CycleInit
NextCal == CalNext /\ UNCHANGED <<banditVars, logVars, evalVars, promptVars, routerVars, cycleVars>>
SpecCal == InitCal /\ [][NextCal]_vars

\* One budget calibrator within a month, calibrate_routing being called again
\* and again (the daily cycle and the calibrate command).
InitRecover ==
    BanditIdle /\ LogInit /\ CalInit /\ EvalIdle /\ PromptInit /\ RouterInit /\ CycleInit
RecoverFrame ==
    UNCHANGED <<banditVars, logVars, evalVars, promptVars, cost_ledger, routed, reward_call,
                peer_budget_state, cycleVars>>
RecoverCalibrates == CalibrateRouting /\ RecoverFrame /\ UNCHANGED spend_calls
RecoverSpends == { <<"deepseek", 8>>, <<"gpt5", 17>> }
RecoverSpending(model, cost) ==
    /\ spend_calls + cost <= MaxRecoverSpend
    /\ UpdateSpending(model, cost)
    /\ spend_calls' = spend_calls + cost
    /\ RecoverFrame
NextRecover ==
    \/ \E s \in RecoverSpends : RecoverSpending(s[1], s[2])
    \/ RecoverCalibrates
    \/ NextDay /\ RecoverFrame /\ UNCHANGED spend_calls
    \/ UpdateSpendingKilledInSave /\ RecoverFrame /\ UNCHANGED spend_calls
SpecRecover == InitRecover /\ [][NextRecover]_vars /\ WF_vars(RecoverCalibrates)

\* The evaluator and the regression detector on the windows of one run.
InitEval ==
    BanditIdle /\ LogInit /\ CalInit /\ EvalInit /\ PromptInit /\ RouterInit /\ CycleInit
NextEval ==
    EvalNext /\ UNCHANGED <<banditVars, logVars, calVars, promptVars, routerVars, cycleVars>>
SpecEval == InitEval /\ [][NextEval]_vars

\* The prompt tuner alone, with processes killed while they save.
InitPrompt ==
    BanditIdle /\ LogInit /\ CalInit /\ EvalIdle /\ PromptInit /\ RouterInit /\ CycleInit
NextPrompt ==
    PromptNext /\ UNCHANGED <<banditVars, logVars, calVars, evalVars, routerVars, cycleVars>>
SpecPrompt == InitPrompt /\ [][NextPrompt]_vars

\* _tune_prompts called on windows of events, and tuner restarts.
InitTune ==
    BanditIdle /\ LogInit /\ CalInit /\ EvalIdle /\ PromptInit /\ RouterInit /\ CycleInit
NextTune ==
    \/ \E events \in TuneWindows : TunePromptsOn(events)
    \/ PromptRestart
         /\ UNCHANGED <<banditVars, logVars, calVars, evalVars, routerVars, cycleVars>>
SpecTune == InitTune /\ [][NextTune]_vars

\* calculate_reward on the metrics, costs and weights it can be given.
InitReward ==
    /\ BanditIdle /\ LogInit /\ CalInit /\ EvalIdle /\ PromptInit /\ RouterIdle /\ CycleInit
    /\ reward_call \in RewardInputs
NextReward ==
    /\ RewardCall
    /\ UNCHANGED <<banditVars, logVars, calVars, evalVars, promptVars, cost_ledger, routed,
                   peer_budget_state, spend_calls, cycleVars>>
SpecReward == InitReward /\ [][NextReward]_vars

\* One router process, the cost ledger and the daily cycle's calibration.
InitRouter ==
    BanditIdle /\ LogInit /\ CalInit /\ EvalIdle /\ PromptInit /\ RouterInit /\ CycleInit
NextRouter ==
    \/ \E ctx \in RouterContexts, uuid \in RouteUuids, s \in RouteSpends :
          RouteAndProcess(ctx, uuid, s[2])
    \/ \E eur \in LedgerCosts : RecordUsage(eur)
    \/ CycleCalibrates
    \/ NewRouter
    \/ RouterDayPasses
SpecRouter == InitRouter /\ [][NextRouter]_vars

\* Two workers recording spend.
InitWorkers ==
    BanditIdle /\ LogInit /\ CalInit /\ EvalIdle /\ PromptInit /\ RouterInit /\ CycleInit
NextWorkers ==
    \/ \E w \in Workers, s \in Spends : WorkerUpdateSpending(w, s[1], s[2])
    \/ \E w \in Workers : WorkerStarts(w)
    \/ RouterDayPasses
SpecWorkers == InitWorkers /\ [][NextWorkers]_vars

\* The daily cycle, with the router spending between cycles.
Init ==
    BanditIdle /\ LogInit /\ CalInit /\ EvalIdle /\ PromptInit /\ RouterInit /\ CycleInit
Next ==
    \/ \E b \in Batches : CycleStart(b)
    \/ MinimalCycle
    \/ EvaluateQuality
    \/ CheckRegressions
    \/ UpdateBandit
    \/ TunePrompts
    \/ CalibrateBudget
    \/ CheckRollbackConditions
    \/ FinalizeCycle
    \/ StageRaises
    \/ RollbackRaises
    \/ SecondPasses
    \/ \E s \in Spends : s[2] > 0 /\ RouterSpends(s[1], s[2])
    \/ RouterStarts
    \/ DayPasses
    \/ MonthPasses
Spec == Init /\ [][Next]_vars

(***************************************************************************)
(* Properties                                                              *)
(***************************************************************************)

StatsOf(cs) == { cs[k][m] : k \in DOMAIN cs, m \in ModelSet }

\* C1: with rewards in [0,1], every alpha and beta in memory and in the state
\* file stays >= 1.0 from the prior (1, 1) on, and no step lowers the alpha or
\* the beta of an entry.
C1_BetaParamsStayPositive ==
    [][ /\ \A e \in StatsOf(context_stats') \cup StatsOf(bandit_file'.context_stats) :
              e.alpha >= 10 /\ e.beta >= 10
        /\ \A k \in DOMAIN context_stats \cap DOMAIN context_stats' : \A m \in ModelSet :
              /\ context_stats'[k][m].alpha >= context_stats[k][m].alpha
              /\ context_stats'[k][m].beta >= context_stats[k][m].beta ]_vars

\* C1 witness: an entry updated twice, once as a success and once as a failure.
C1_Witness ==
    \E e \in StatsOf(context_stats) : e.count = 2 /\ e.alpha > 10 /\ e.beta > 10

NonCriticalContexts == { ctx \in GateContexts : ~IsCritical(ctx) }

\* The adjustments of the emergency: premium denied, without a draw, to
\* every context off the critical allow-list.
Lockdown(ra) ==
    /\ ra.emergency_mode
    /\ ra.gpt5_usage_multiplier = 100
    /\ ra.frozen_mode
    /\ \A ctx \in NonCriticalContexts :
          /\ Gpt5Outcomes(ra, TRUE, ctx) = {FALSE}
          /\ ~Gpt5Draws(ra, TRUE)

C3_FinnishColdStart ==
    ( /\ choice.asked
      /\ \E i \in 1..Len(cold_start_topics) : cold_start_topics[i] = "FI/*"
      /\ (choice.context.lang = "fi" \/ choice.context.country = "FI") ) =>
        /\ choice.model = "gpt5"
        /\ choice.reason = "cold_start"
        /\ ~choice.explore

\* C3 witness: premium chosen for a Finnish-language context (country not FI)
\* whose premium arm has only failures on record.
C3_Witness ==
    /\ choice.asked
    /\ choice.context = CtxFiPlain
    /\ choice.model = "gpt5"
    /\ Contextualize(CtxFiPlain) \in DOMAIN context_stats
    /\ context_stats[Contextualize(CtxFiPlain)]["gpt5"].beta > 10
    /\ context_stats[Contextualize(CtxFiPlain)]["deepseek"].alpha > 10

\* The steady NORMAL state of the calibrator.
SteadyNormal ==
    /\ routing_adjustments.gpt5_usage_multiplier = 1000
    /\ ~routing_adjustments.emergency_mode
    /\ ~routing_adjustments.frozen_mode
    /\ ~UtilizationAtLeast(budget_state, SoftCapPct)
    /\ ~ProjectedOver(budget_state, 100)

\* C4: a calibrate_routing call made in the steady NORMAL state returns no
\* adjustments, leaves the adjustments in memory (reason and timestamp
\* included) as they were and does not write the adjustments file.
C4_SteadyNormalIsNoOp ==
    [][ (calibration'.returned /\ calibration'.calls # calibration.calls /\ SteadyNormal) =>
            /\ calibration'.adjustments_made = << >>
            /\ routing_adjustments' = routing_adjustments
            /\ routing_file' = routing_file ]_vars

\* C4 witness: two calls in a row in the steady NORMAL state with spend on
\* record, and still no adjustments file.
C4_Witness ==
    /\ calibration.returned
    /\ calibration.calls = 0
    /\ SteadyNormal
    /\ budget_state.total_spent > 0
    /\ routing_file.status = "missing"

\* C5: inside one accounting period the reported spend (utilization times the
\* target) never decreases, and when the calendar month changes the reported
\* utilization is 0.
C5_UtilizationMonotoneAndReset ==
    [][ /\ (budget_state'.current_month = budget_state.current_month) =>
              budget_state'.total_spent >= budget_state.total_spent
        /\ (now_month' # now_month) => budget_state'.total_spent = 0 ]_vars

\* C6: ROLLBACK-CHECK executes a rollback exactly when the gates failed, a
\* regression was detected or the calibration returned emergency mode.
C6_RollbackIffAnyTrigger ==
    cycle.checked =>
        (cycle.rollback_executed <=>
            (~cycle.gates_passed \/ cycle.regression_detected \/ cycle.emergency))

\* C7: after a rollback the persisted adjustments are frozen and deny premium
\* to every context off the critical allow-list.
C7_RollbackReservesPremium ==
    (pc = "persist" /\ cycle.rollback_executed) =>
        /\ routing_file.status = "ok"
        /\ routing_file.data.frozen_mode
        /\ \A ctx \in NonCriticalContexts :
              Gpt5Outcomes(routing_file.data, TRUE, ctx) = {FALSE}

\* C8: a cycle that ended with status error ran no stage after the one that
\* raised and left the persisted adjustments as they were when it started.
C8_ErrorLeavesAdjustments ==
    (cycle.status = "error") =>
        /\ pc = "idle"
        /\ routing_file.data = cycle.ra_at_start.data

\* The lines of the first n that read_events is to return.
Recent(n, cutoff) ==
    { i \in 1..n : IsWellFormed(event_log[i]) /\ event_log[i].ts >= cutoff }

\* C9: read_events does not raise and returns every well-formed record that is
\* recent enough, wherever the malformed lines lie.
C9_ReadSkipsMalformedOnly ==
    read_result.done =>
        /\ ~read_result.raised
        /\ \A i \in Recent(read_result.log_len, read_result.at_clock - read_result.days_back) :
              \E j \in 1..Len(read_result.events) : read_result.events[j] = event_log[i]

\* C10: every step that changes the log keeps the stored lines in place and
\* adds one line at the end; after append_feedback that line is a
\* feedback_update record whose original_event_id is the id passed.
C10_AppendOnly ==
    [][ (event_log' # event_log) =>
            /\ Len(event_log') = Len(event_log) + 1
            /\ SubSeq(event_log', 1, Len(event_log)) = event_log
            /\ (log_call'.op = "append_feedback") =>
                  /\ event_log'[Len(event_log')].kind = "feedback_update"
                  /\ event_log'[Len(event_log')].ref = log_call'.event_id ]_vars

\* C10 witness: an event followed by a feedback record that refers to it.
C10_Witness ==
    /\ Len(event_log) >= 2
    /\ event_log[1].kind = "event"
    /\ log_call.op = "append_feedback"
    /\ event_log[Len(event_log)].kind = "feedback_update"
    /\ event_log[Len(event_log)].ref = event_log[1].id

\* The two windows of the run and the elements of a sequence
BothAtLeast(k) == recent_events.n >= k /\ historical_events.n >= k
Elems(seq) == { seq[i] : i \in 1..Len(seq) }

\* C11: should_rollback never returns true when either window holds fewer
\* than 20 events; it reports insufficient data instead of a decision,
\* whatever the metric values are.
C11_NoRollbackUnderTwenty ==
    (eval_call.op = "should_rollback" /\ ~BothAtLeast(20))
        => /\ ~eval_call.rollback.rollback
           /\ eval_call.rollback.reason = "insufficient_data"

\* The recent pass rate is below 0.8 times the historical one
PassRateDropped ==
    10 * recent_events.schema_ok * historical_events.n
        < 8 * historical_events.schema_ok * recent_events.n

\* The pass rate is a metric the configured guardrail compares
PassRateGuarded ==
    /\ eval_cfg.regression_guardrail
    /\ "card_pass_rate" \in Elems(eval_cfg.require_improvement)

\* No gate other than the pass rate fails on the recent window
OtherGatesHold ==
    /\ recent_events.why_matters_ok >= eval_cfg.min_coverage_why_matters * recent_events.n
    /\ recent_events.hallu_score <= eval_cfg.max_hallu_rate * recent_events.n
    /\ recent_events.ref_miss_rate <= eval_cfg.max_ref_miss_rate * recent_events.n

C13_IdenticalNeverFlagged ==
    (eval_call.op = "should_rollback" /\ recent_events = historical_events)
        => ~eval_call.rollback.rollback

\* C13: when both windows have the same metric values, should_rollback
\* reports no performance regression, and it returns false exactly when the
\* recent window passes the quality gates (or is empty).
C13_IdenticalNoRegression ==
    (eval_call.op = "should_rollback" /\ recent_events = historical_events)
        => /\ eval_call.rollback.reason # "performance_regression"
           /\ ~eval_call.rollback.rollback
                <=> (recent_events.n = 0
                     \/ CheckQualityGates(CalculateMetrics(recent_events), eval_cfg))

\* C13 witness: pass rate 0.90 in both windows of 50 events, not flagged.
C13_Witness ==
    /\ eval_call.op = "should_rollback"
    /\ recent_events = historical_events
    /\ recent_events.n = 50
    /\ recent_events.schema_ok = 50 * 90
    /\ ~eval_call.rollback.rollback
    /\ eval_call.rollback.reason = "no_issues_detected"

\* The gates that fail on the recent window, each with the threshold it is
\* held against
FailingGates ==
    (IF recent_events.schema_ok < eval_cfg.min_card_pass_rate * recent_events.n
     THEN {<<"card_pass_rate", recent_events.schema_ok, eval_cfg.min_card_pass_rate>>}
     ELSE {})
    \cup (IF recent_events.why_matters_ok < eval_cfg.min_coverage_why_matters * recent_events.n
          THEN {<<"coverage_why_matters", recent_events.why_matters_ok,
                  eval_cfg.min_coverage_why_matters>>}
          ELSE {})
    \cup (IF recent_events.hallu_score > eval_cfg.max_hallu_rate * recent_events.n
          THEN {<<"hallu_rate", recent_events.hallu_score, eval_cfg.max_hallu_rate>>}
          ELSE {})
    \cup (IF recent_events.ref_miss_rate > eval_cfg.max_ref_miss_rate * recent_events.n
          THEN {<<"ref_miss_rate", recent_events.ref_miss_rate, eval_cfg.max_ref_miss_rate>>}
          ELSE {})

\* C14: for a non-empty batch, quality_gates_passed is true iff all four
\* gates hold on the overall metrics, and when it is false quality_issues
\* holds exactly one entry, with actual and threshold value, for each
\* failing gate and none for a gate that holds.
C14_GatesAndIssues ==
    (eval_call.op = "evaluate_batch" /\ recent_events.n > 0)
        => LET result == eval_call.evaluation
               issues == result.quality_issues
           IN  /\ result.has_gates
               /\ result.quality_gates_passed <=> (FailingGates = {})
               /\ Len(issues) = Cardinality(FailingGates)
               /\ { <<issues[i].metric, issues[i].actual[1], issues[i].threshold>> :
                      i \in 1..Len(issues) } = FailingGates
               /\ \A i \in 1..Len(issues) : issues[i].actual[2] = recent_events.n

\* C14 witness: a batch on which two gates fail and two hold.
C14_Witness ==
    /\ eval_call.op = "evaluate_batch"
    /\ recent_events.n > 0
    /\ ~eval_call.evaluation.quality_gates_passed
    /\ Len(eval_call.evaluation.quality_issues) = 2
    /\ Cardinality(FailingGates) = 2

\* C15: evaluate_batch on no events returns the no-data result, and neither
\* should_rollback nor the rollback check reads it as a gate failure: a
\* result without quality_gates_passed counts as passed.
C15_EmptyBatchIsNoData ==
    (eval_call.op \in {"evaluate_batch", "should_rollback"} /\ recent_events.n = 0)
        => /\ eval_call.evaluation = NoDataResult
           /\ eval_call.evaluation.error
           /\ ~eval_call.evaluation.has_gates
           /\ GetGatesPassed(eval_call.evaluation, TRUE)
           /\ eval_call.op = "should_rollback"
                => /\ ~eval_call.rollback.rollback
                   /\ eval_call.rollback.reason # "quality_gates_failed"

\* C15 witness: should_rollback on an empty recent window and a historical
\* window of 50 events.
C15_Witness ==
    /\ eval_call.op = "should_rollback"
    /\ recent_events.n = 0
    /\ historical_events.n = 50
    /\ eval_call.evaluation = NoDataResult
    /\ ~eval_call.rollback.rollback

\* C16: a cycle that has returned has a status among success, minimal_cycle,
\* error and rollback_executed, and the status is rollback_executed exactly
\* when its ROLLBACK-CHECK executed a rollback.
C16_StatusReportsRollback ==
    (pc = "idle" /\ cycle.status # None)
        => /\ cycle.status \in {"success", "minimal_cycle", "error", "rollback_executed"}
           /\ cycle.status = "rollback_executed" <=> cycle.rollback_executed

\* C17: no step deletes or changes a stored cycle summary, also when two
\* cycles start within the same clock second, and the latest pointer changes
\* only when a full cycle completes, to that cycle's summary.
C17_SummariesKept ==
    [][ /\ \A f \in DOMAIN summaries :
              f \in DOMAIN summaries' /\ summaries'[f] = summaries[f]
        /\ IF pc = "persist" /\ cycle'.status = "success"
           THEN latest_file' = Written(Summary(cycle'))
           ELSE latest_file' = latest_file ]_vars

\* C18: the adjustments loaded when the routing-adjustment file is missing
\* or unreadable grant no premium to a context that matches no cold-start
\* rule, also when the base decision is premium.
C18_DefaultIsColdStartOnly ==
    (routing_file.status # "ok")
        => \A ctx \in GateContexts :
              FirstColdStart(ctx) = 0
                 => Gpt5Outcomes(LoadRoutingAdjustments, TRUE, ctx) = {FALSE}

C20_MultiplierInUnitRange ==
    /\ routing_adjustments.gpt5_usage_multiplier \in 0..1000
    /\ routing_file.data.gpt5_usage_multiplier \in 0..1000

\* C20 witness: a rollback has written 1.0 over adjustments that a
\* calibration had reduced.
C20_Witness ==
    /\ cycle.rollback_executed
    /\ routing_adjustments.gpt5_usage_multiplier < 1000
    /\ routing_file.data.gpt5_usage_multiplier = 1000

\* C21: a route_and_process call made while the router's routing adjustment
\* is in emergency mode does not send a context outside the calibrator's
\* critical allow-list to the premium model.
C21_EmergencyKeepsPremiumCritical ==
    (routed.asked /\ routed.emergency /\ ~IsCritical(routed.context))
        => routed.model # "gpt5"

\* C22: the cumulative spend in the budget state file is the sum of the costs
\* of all update_spending calls of the workers in the period.
C22_PersistedSpendIsSum ==
    (budget_file.status = "ok") => budget_file.data.total_spent = spend_calls

\* C23: a state file that has been written is never left empty or partial,
\* so that a load of it never falls back to the default state.
C23_PersistIsAtomic ==
    prompt_file.exists => ~prompt_file.torn

\* C24: one bandit update changes the entry of its (context key, tier) and no
\* other: a reward above 0.5 is added to alpha and beta stays, any other
\* reward adds 1 - reward to beta and alpha stays; the count grows by one and
\* the cumulative reward by the reward; every other entry is as it was (an
\* entry not yet created counting as its prior); and the state file holds
\* the in-memory state when the update returns.
C24_UpdateTouchesOneEntry ==
    [][ (total_events' = total_events + 1)
          => \E key \in DOMAIN context_stats', m \in ModelSet :
                LET cs  == WithEntry(context_stats, key)
                    old == cs[key][m]
                    new == context_stats'[key][m]
                    r   == new.total_reward - old.total_reward
                IN  /\ r \in Rewards
                    /\ new.count = old.count + 1
                    /\ IF r > 5
                       THEN new.alpha = old.alpha + r /\ new.beta = old.beta
                       ELSE new.beta = old.beta + (10 - r) /\ new.alpha = old.alpha
                    /\ DOMAIN context_stats' = DOMAIN cs
                    /\ \A k \in DOMAIN cs, n \in ModelSet :
                          (<<k, n>> # <<key, m>>) => context_stats'[k][n] = cs[k][n]
                    /\ bandit_file' = [exists |-> TRUE, context_stats |-> context_stats',
                                       total_events |-> total_events'] ]_vars

\* C24 witness: two updates have been saved, of two context keys, one with a
\* reward above 0.5 and one with a reward of at most 0.5.
C24_Witness ==
    /\ bandit_file.exists
    /\ bandit_file.context_stats = context_stats
    /\ \E k1, k2 \in DOMAIN context_stats, m1, m2 \in ModelSet :
          /\ k1 # k2
          /\ context_stats[k1][m1].count = 1 /\ context_stats[k1][m1].alpha > 10
          /\ context_stats[k2][m2].count = 1 /\ context_stats[k2][m2].beta > 10

\* C25: in detect_regression, with the guardrail on and both windows holding
\* events, a metric of require_improvement that worsened by more than 20% is
\* reported unless both windows have at least 30 events and the test on the
\* pass rate is not significant: under 30 events in either window it is
\* always reported; with 30 or more in both it is reported exactly when the
\* pass-rate test is significant, whichever metric was flagged.
C25_SuppressedOnlyWhenNotSignificant ==
    (/\ eval_call.op = "detect_regression"
     /\ eval_cfg.regression_guardrail
     /\ BothAtLeast(1)
     /\ \E metric \in Elems(eval_cfg.require_improvement) :
           Worsened(metric, recent_events, historical_events))
        => IF BothAtLeast(30)
           THEN eval_call.regression.regression_detected
                   <=> ~NotSignificant(recent_events, historical_events)
           ELSE eval_call.regression.regression_detected

\* C25 witness: both windows have 30 events or more, a metric other than the
\* pass rate was flagged, and the flag was suppressed by the pass-rate test.
C25_Witness ==
    /\ eval_call.op = "detect_regression"
    /\ BothAtLeast(30)
    /\ ~eval_call.regression.regression_detected
    /\ "not_significant" \in Elems(eval_call.regression.details)
    /\ "card_pass_rate" \notin Elems(eval_call.regression.details)
    /\ Len(eval_call.regression.details) >= 2

\* C26: a calibrate_routing call that finds the soft cap reached or the
\* month projected over budget, and the hard cap not reached, sets the
\* multiplier to max(0.3, m x 0.7) when projected utilization is over 1.2,
\* to max(0.5, m x 0.8) when it is over 1.1 and to max(0.7, m x 0.9)
\* otherwise; it sets frozen when projected utilization is over 1.3 and
\* leaves it otherwise; it leaves the emergency flag; and it records a
\* reason and the timestamp, in memory and in the adjustments file.
C26_SoftCapReduction ==
    [][ (/\ calibration'.returned
         /\ calibration'.calls # calibration.calls
         /\ ~UtilizationAtLeast(budget_state, HardCapPct)
         /\ (UtilizationAtLeast(budget_state, SoftCapPct) \/ ProjectedOver(budget_state, 100)))
          => LET m == routing_adjustments.gpt5_usage_multiplier
             IN  /\ routing_adjustments'.gpt5_usage_multiplier =
                       IF ProjectedOver(budget_state, 120)
                       THEN (IF (m * 7) \div 10 > 300 THEN (m * 7) \div 10 ELSE 300)
                       ELSE IF ProjectedOver(budget_state, 110)
                       THEN (IF (m * 8) \div 10 > 500 THEN (m * 8) \div 10 ELSE 500)
                       ELSE (IF (m * 9) \div 10 > 700 THEN (m * 9) \div 10 ELSE 700)
                 /\ routing_adjustments'.frozen_mode =
                       (routing_adjustments.frozen_mode \/ ProjectedOver(budget_state, 130))
                 /\ routing_adjustments'.emergency_mode = routing_adjustments.emergency_mode
                 /\ routing_adjustments'.adjustment_reason # << >>
                 /\ routing_adjustments'.adjustment_reason = calibration'.adjustments_made
                 /\ routing_adjustments'.last_adjustment = Stamp
                 /\ routing_file' = Written(routing_adjustments') ]_vars

\* C26 witness: repeated light reductions have brought the multiplier down to
\* the floor of 0.7, with the soft cap reached and the hard cap not.
C26_Witness ==
    /\ calibration.returned
    /\ calibration.adjustments_made = <<"LIGHT">>
    /\ UtilizationAtLeast(budget_state, SoftCapPct)
    /\ ~UtilizationAtLeast(budget_state, HardCapPct)
    /\ routing_adjustments.gpt5_usage_multiplier = 700
    /\ routing_file.data = routing_adjustments

\* The budget is comfortably under: utilization below 0.8 (so the soft cap is
\* not reached) and the month not projected over budget; and the adjustment
\* is back to normal.
ComfortableStates ==
    { t \in (0..MaxSpend) \X (0..MaxSpend) \X (1..7) \X Days :
        /\ t[1] * 100 < 80 * TargetBudget
        /\ t[1] * 100 < SoftCapPct * TargetBudget
        /\ (t[1] * t[3] + t[2] * (30 - t[4])) * 100 <= 100 * TargetBudget * t[3] }
Comfortable ==
    <<budget_state.total_spent, budget_state.rate_sum, budget_state.rate_n, now_day>>
        \in ComfortableStates
Restored ==
    /\ ~routing_adjustments.emergency_mode
    /\ ~routing_adjustments.frozen_mode
    /\ routing_adjustments.gpt5_usage_multiplier = 1000

\* C27: recovery is live. If from some point on the budget stays comfortably
\* under and calibrate_routing keeps being called, the adjustment eventually
\* is emergency off, frozen off, multiplier 1.0 and stays so. On the way, a
\* call under a comfortable budget clears the emergency flag and sets the
\* multiplier to 0.8, or else multiplies it by 1.1 capped at 1.0, and
\* unfreezes.
C27_RecoveryIsLive ==
    /\ (<>[]Comfortable) => (<>[]Restored)
    /\ [][ (calibration'.returned /\ calibration'.calls # calibration.calls /\ Comfortable)
             => LET m == routing_adjustments.gpt5_usage_multiplier
                IN  /\ ~routing_adjustments'.emergency_mode
                    /\ ~routing_adjustments'.frozen_mode
                    /\ routing_adjustments'.gpt5_usage_multiplier =
                          IF routing_adjustments.emergency_mode THEN 800
                          ELSE IF (m * 11) \div 10 < 1000 THEN (m * 11) \div 10 ELSE 1000 ]_vars

\* C27 witness: the calibrator came up on an unreadable budget file with the
\* emergency adjustment on disk, and calibrations under the comfortable
\* budget have brought the adjustment back to normal.
C27_Witness ==
    /\ budget_file.status = "unreadable"
    /\ Comfortable
    /\ Restored
    /\ calibration.returned
    /\ routing_adjustments.adjustment_reason = <<"RESTORED">>
    /\ routing_file.data = routing_adjustments

\* C28: each BANDIT-UPDATE stage over a window of n events raises the total
\* event count by n and the count of every (context key, tier) by the number
\* of the window's events with that key and tier, whether or not the events
\* were counted before: k cycles over the same window add k times as much.
C28_BanditUpdateHasNoDedup ==
    [][ (pc = "bandit" /\ pc' = "prompt")
          => LET ev == cycle.batch.events
             IN  /\ total_events' = total_events + Len(ev)
                 /\ bandit_file'.total_events = total_events'
                 /\ \A key \in DOMAIN context_stats', m \in ModelSet :
                       context_stats'[key][m].count =
                          WithEntry(context_stats, key)[key][m].count
                          + Cardinality({ i \in 1..Len(ev) :
                                            /\ Contextualize(ev[i].input) = key
                                            /\ ev[i].model = m }) ]_vars

\* C28 witness: the second cycle has run BANDIT-UPDATE over the same window
\* of six events as the first: twelve events counted, ten of them for the
\* key and tier of the five deepseek events.
C28_Witness ==
    /\ cycle.number = 2
    /\ Len(cycle.batch.events) = 6
    /\ total_events = 12
    /\ Contextualize(DeepseekEvent.input) \in DOMAIN context_stats
    /\ context_stats[Contextualize(DeepseekEvent.input)]["deepseek"].count = 10

\* C29: persisting and reloading the prompt-variant pool is lossless: when
\* the file holds what the tuner has in memory, a tuner that loads it has the
\* same trial count, success count and cumulative score for every variant
\* (and so the same average score and the same exploitation choice).
C29_ReloadIsLossless ==
    (/\ prompt_file.exists
     /\ ~prompt_file.torn
     /\ prompt_file = SavedVariants(prompt_variants))
        => \A id \in PromptIds :
              /\ LoadVariants[id].trials = prompt_variants[id].trials
              /\ LoadVariants[id].successes = prompt_variants[id].successes
              /\ LoadVariants[id].total_score = prompt_variants[id].total_score

\* the events of a window routed to model with variant id, from i on
RECURSIVE TierGroup(_, _, _, _)
TierGroup(events, model, id, i) ==
    IF i > Len(events) THEN << >>
    ELSE (IF events[i].model = model /\ events[i].variant = id THEN <<events[i]>> ELSE << >>)
         \o TierGroup(events, model, id, i + 1)

\* C30: PROMPT-TUNE groups the window's events by (tier, variant). A group of
\* fewer than five events changes no counter of its variant; a group of five
\* or more is recorded once, for its own tier and variant and with the mean
\* of its own events' metrics, so the variant's trial count grows by exactly
\* one; events of different tiers are never merged into one group.
C30_TuneGroupsByTierAndVariant ==
    [][ (cycle'.number = cycle.number + 1 /\ pc = "idle" /\ pc' = "idle")
          => \A id \in PromptIds :
                LET group == TierGroup(cycle'.batch.events, VariantModel(id), id, 1)
                IN  prompt_variants'[id] =
                       IF Len(group) >= 5
                       THEN Recorded(prompt_variants, VariantModel(id), id,
                                     AvgMetrics(group))[id]
                       ELSE prompt_variants[id] ]_vars

\* C31: an item routed while the router's routing adjustment has frozen set
\* gets its prompt variant from the exploitation branch of propose, never
\* from the exploration branch.
C31_FrozenMeansNoExploration ==
    (routed.asked /\ routed.frozen) => ~routed.explored

\* the reward of the last call by the formula without a quality weight:
\* weighted sum minus the two penalties minus cost_weight x normalized cost,
\* clamped to [0, 1]
StatedReward ==
    LET raw == 10 * (QualitySum(reward_call.metrics)
                     - 10 * reward_call.metrics.hallu_score
                     - 10 * reward_call.metrics.ref_miss_rate)
               - reward_call.cost_weight * NormalizedCost(reward_call.cost)
    IN  IF raw < 0 THEN 0 ELSE IF raw > 1000 THEN 1000 ELSE raw

\* C32 as stated: the reward is in [0, 1] and equals the weighted quality sum
\* minus the hallucination, reference-miss and cost penalties, clamped.
C32_RewardIsStatedFormula ==
    reward_call.done
        => /\ reward_call.reward \in 0..1000
           /\ reward_call.reward = StatedReward

\* C32: for metrics in [0, 1] and a cost >= 0 the reward is in [0, 1] and
\* equals quality_weight x max(0, weighted sum - hallucination - reference
\* miss) - cost_weight x min(1, cost / 0.05), clamped to [0, 1]; it is the
\* stated formula when the configured quality weight is 1.
C32_RewardClamped ==
    reward_call.done
        => LET q     == reward_call.metrics
               raw   == 4 * q.editor_accepted + 3 * q.user_engagement
                        + 2 * q.schema_ok + q.ref_quality
                        - 10 * q.hallu_score - 10 * q.ref_miss_rate
               score == IF raw < 0 THEN 0 ELSE raw
               nc    == IF reward_call.cost >= 50 THEN 100 ELSE 2 * reward_call.cost
               value == reward_call.quality_weight * score - reward_call.cost_weight * nc
           IN  /\ reward_call.reward \in 0..1000
               /\ reward_call.reward = (IF value < 0 THEN 0
                                        ELSE IF value > 1000 THEN 1000 ELSE value)
               /\ (reward_call.quality_weight = 10) => reward_call.reward = StatedReward

\* C32 witness: a call whose penalties and cost exceed the quality, the
\* reward being clamped to 0 from below.
C32_Witness ==
    /\ reward_call.done
    /\ reward_call.reward = 0
    /\ reward_call.metrics.hallu_score = 10
    /\ reward_call.metrics.editor_accepted = 10
    /\ reward_call.cost = 80
    /\ reward_call.quality_weight = 7

\* C33: in every reachable state of the routing adjustment, in the memory of
\* the calibrator and in the adjustments file, after any interleaving of
\* calibrate_routing, update_spending (month rollover included) and
\* rollback, emergency set implies frozen set.
C33_EmergencyImpliesFrozen ==
    /\ routing_adjustments.emergency_mode => routing_adjustments.frozen_mode
    /\ routing_file.data.emergency_mode => routing_file.data.frozen_mode

\* C33 witness: a cycle at the hard cap has entered the emergency in the
\* calibrator and then executed a rollback, which wrote the conservative
\* state over the emergency adjustment in the file.
C33_Witness ==
    /\ cycle.rollback_executed
    /\ pc = "persist"
    /\ routing_adjustments.emergency_mode
    /\ routing_adjustments.frozen_mode
    /\ routing_file.status = "ok"
    /\ routing_file.data.frozen_mode
    /\ ~routing_file.data.emergency_mode

\* C34: a calibrate_routing call that takes the soft-cap / projected-over-
\* budget branch never increases the premium multiplier.
C34_SoftCapNeverIncreases ==
    [][ (/\ calibration'.returned
         /\ calibration'.calls # calibration.calls
         /\ ~UtilizationAtLeast(budget_state, HardCapPct)
         /\ (UtilizationAtLeast(budget_state, SoftCapPct) \/ ProjectedOver(budget_state, 100)))
          => routing_adjustments'.gpt5_usage_multiplier
                <= routing_adjustments.gpt5_usage_multiplier ]_vars

\* C35: for every routing adjustment and every context,
\* should_use_gpt5(False, context) returns False.
C35_GatingOnlyDowngrades ==
    \A ctx \in GateContexts : Gpt5Outcomes(routing_adjustments, FALSE, ctx) = {FALSE}

\* C36: at the end of every cycle whose calibration found utilization at or
\* over the hard cap, the adjustments file has emergency set and a
\* multiplier of at most 0.1, also when the cycle executed a rollback.
C36_RollbackKeepsLockdown ==
    (/\ pc = "idle"
     /\ cycle.status = "success"
     /\ cycle.emergency
     /\ UtilizationAtLeast(budget_state, HardCapPct))
        => /\ routing_file.data.emergency_mode
           /\ routing_file.data.gpt5_usage_multiplier <= 100

\* C37: update_spending leaves the routing adjustment as it was, in memory
\* and in the adjustments file, also on the first call of a new month.
C37_UpdateSpendingKeepsAdjustment ==
    [][ (budget_file' # budget_file)
          => /\ routing_adjustments' = routing_adjustments
             /\ routing_file'.data = routing_file.data ]_vars

\* C38: after a cycle has executed a rollback, the routing adjustment held
\* by the cycle's own budget calibrator is the conservative state the
\* rollback wrote.
C38_RollbackReachesMemory ==
    (pc = "persist" /\ cycle.rollback_executed)
        => routing_adjustments = routing_file.data

\* C39: every record of an executed rollback in the change log has a
\* non-empty list of reasons, and a rollback appends exactly one record and
\* leaves the earlier ones as they were.
C39_RollbackIsAudited ==
    /\ [](\A i \in 1..Len(change_log) : change_log[i].reasons # << >>)
    /\ [][ (pc = "rollback_check" /\ pc' = "persist" /\ cycle'.rollback_executed)
             => /\ Len(change_log') = Len(change_log) + 1
                /\ SubSeq(change_log', 1, Len(change_log)) = change_log ]_vars

\* C40: in get_budget_status the projected end-of-month spend is never below
\* the current spend, on every day of the month.
C40_ProjectionAtLeastSpend ==
    GetBudgetStatus.projected_num >= GetBudgetStatus.total * GetBudgetStatus.projected_den

====
